---- MODULE Spec2Model ----
(***************************************************************************)
(* Model of the Layerforge / Cheapforge python core:                       *)
(*   cheapforge/mesh_generator.py  (MeshGenerator)                         *)
(*   cheapforge/heightmap.py       (HeightMapGenerator)                    *)
(*                                                                         *)
(* Numbers.  Lengths are fixed-point integers, one unit = 0.01 mm          *)
(* (100 mm = 10000, the default base layer 0.16 mm = 16).  A division      *)
(* rounds to the grid (floor), as a float division rounds to the nearest   *)
(* representable value; the inputs are chosen so that one grid step of     *)
(* linspace is at least one unit (no underflow).  Normalised sampling      *)
(* coordinates are exact rationals n / CoordDen.                           *)
(*                                                                         *)
(* A vertex is <<x, y, z>>, a triangle is <<v0, v1, v2>> in winding order, *)
(* an stl Mesh is [type |-> "Mesh", vectors |-> sequence of triangles].    *)
(* Python's None is the record NoneVal.                                    *)
(***************************************************************************)
EXTENDS Integers, Sequences, FiniteSets, TLC

VARIABLES
    mesh,             \* MeshGenerator.mesh
    callerHeightmap,  \* the caller's ndarray handed to create_relief_mesh
    border,           \* the caller's reference to the last add_border result
    reliefArgs,       \* the arguments of the create_relief_mesh call that built mesh
    call,             \* the last call: its name and its arguments
    ret,              \* what the last call returned (or the exception it raised)
    heightmap,        \* HeightMapGenerator.heightmap
    min_depth,        \* HeightMapGenerator.min_depth
    max_depth,        \* HeightMapGenerator.max_depth
    files,            \* the file system: the content of each path, or None
    pil,              \* the last filter the imaging library was asked to apply, or None
    filaments,        \* ColorPlanner.filaments
    stops,            \* ColorPlanner.stops
    swaps             \* ColorPlanner.swaps

vars == <<mesh, callerHeightmap, border, reliefArgs, call, ret, heightmap, min_depth, max_depth, files, pil,
          filaments, stops, swaps>>

----------------------------------------------------------------------------
(* Bounds of the model *)

\* largest number of rows, and of columns, of an enumerated grid
MaxDim == 3
\* largest number of samples (rows * columns) of an enumerated grid
MaxCells == 6
\* the same for the grids of the specifications that take several steps
MaxSmallCells == 4
\* the same for the images whose heightmap is filtered
MaxDetailCells == 2
\* largest number of meshes handed to one combine_meshes call
MaxMeshes == 2
\* sampling coordinates are the multiples of 1 / CoordDen ...
CoordDen == 2
\* ... from -MaxCoord / CoordDen to MaxCoord / CoordDen
MaxCoord == 4

----------------------------------------------------------------------------
(* Values *)

NoneVal == [type |-> "None"]

Mesh(triangles) == [type |-> "Mesh", vectors |-> triangles]

Raised(exc) == [type |-> "raise", exception |-> exc]

\* a Python list returned to the caller
List(items) == [type |-> "list", items |-> items]

\* a 2-D ndarray held by an attribute that can also be None
Array(rows) == [type |-> "ndarray", data |-> rows]

SetMax(S) == CHOOSE m \in S : \A n \in S : n <= m

SetMin(S) == CHOOSE m \in S : \A n \in S : m <= n

\* ndarray.shape of a 2-D array stored as a sequence of rows
Rows(a) == Len(a)

Cols(a) == Len(a[1])

\* sample values of the enumerated grids (0 mm and 1.5 mm)
Heights == {0, 150}

Shapes(cells) == {s \in (1..MaxDim) \X (1..MaxDim) : s[1] * s[2] <= cells}

Grids(vals, cells) == UNION {[1..s[1] -> [1..s[2] -> vals]] : s \in Shapes(cells)}

\* tests/conftest.py sample_heightmap: 8x8, 0.5 + (i + j) / 14 * 1.5 mm
sample_heightmap == [i \in 1..8 |-> [j \in 1..8 |-> 50 + (((i - 1) + (j - 1)) * 150) \div 14]]

HeightMaps == Grids(Heights, MaxCells) \cup {sample_heightmap}

SmallHeightMaps == Grids(Heights, MaxSmallCells)

\* arguments of create_relief_mesh after the heightmap: the test's, the cli's
\* with a 2 mm border, one without base layer at an offset, and one that puts
\* part of the top surface below z = 0
PhysicalSpecs ==
    { [width_mm |-> 10000, height_mm |-> 8000, base_layer_mm |-> 16, offset_x |-> 0, offset_y |-> 0],
      [width_mm |-> 10000, height_mm |-> 10000, base_layer_mm |-> 16, offset_x |-> 200, offset_y |-> 200],
      [width_mm |-> 6000, height_mm |-> 3000, base_layer_mm |-> 0, offset_x |-> -300, offset_y |-> 500],
      [width_mm |-> 5000, height_mm |-> 5000, base_layer_mm |-> -16, offset_x |-> 0, offset_y |-> 0] }

\* arguments of add_border: tests/test_mesh_generator.py and the cli defaults
BorderSpecs ==
    { [width_mm |-> 10000, height_mm |-> 8000, border_width_mm |-> 500, border_depth_mm |-> 300, base_layer_mm |-> 16],
      [width_mm |-> 10000, height_mm |-> 10000, border_width_mm |-> 200, border_depth_mm |-> 200, base_layer_mm |-> 16] }

\* arguments of add_border, enumerated
BorderArgs ==
    [width_mm : {6000, 10000}, height_mm : {3000, 8000}, border_width_mm : {0, 200, 500},
     border_depth_mm : {200, 300}, base_layer_mm : {0, 16}]

\* arguments of _create_box, enumerated
BoxArgs ==
    [x : {-300, 0, 200}, y : {0, 500}, width : {0, 200, 10400}, depth : {200, 8000},
     z_min : {0, 16}, z_max : {16, 316}]

----------------------------------------------------------------------------
(* numpy helpers used by create_relief_mesh *)

\* mutant of fliplr: the mirror is forgotten
fliplrOmitted(a) == a

\* np.fliplr: reverse the column order of every row (a new view; the
\* argument array is not written)
fliplr(a) == [i \in 1..Rows(a) |-> [j \in 1..Cols(a) |-> a[i][Cols(a) + 1 - j]]]

\* mutant of linspace: endpoint=False, the step is (stop - start) / num
linspaceNoEndpoint(start, stop, num) ==
    [k \in 1..num |-> start + ((k - 1) * (stop - start)) \div num]

\* np.linspace(start, stop, num): num samples, the last one exactly stop
linspace(start, stop, num) ==
    [k \in 1..num |->
        IF num = 1 THEN start
        ELSE IF k = num THEN stop
        ELSE start + ((k - 1) * (stop - start)) \div (num - 1)]

\* np.meshgrid(x, y): X[i][j] = x[j], Y[i][j] = y[i]
meshgridX(x, y) == [i \in 1..Len(y) |-> [j \in 1..Len(x) |-> x[j]]]

meshgridY(x, y) == [i \in 1..Len(y) |-> [j \in 1..Len(x) |-> y[i]]]

----------------------------------------------------------------------------
(* MeshGenerator *)

\* one quad of a surface: the two triangles appended by the loop body for
\* cell (i, j) (1-based here)
SurfaceCell(X, Y, Z, flip_normals, i, j) ==
    LET v00 == <<X[i][j], Y[i][j], Z[i][j]>>
        v10 == <<X[i][j+1], Y[i][j+1], Z[i][j+1]>>
        v01 == <<X[i+1][j], Y[i+1][j], Z[i+1][j]>>
        v11 == <<X[i+1][j+1], Y[i+1][j+1], Z[i+1][j+1]>>
    IN  IF flip_normals
        THEN << <<v00, v01, v10>>, <<v10, v01, v11>> >>
        ELSE << <<v00, v10, v01>>, <<v10, v11, v01>> >>

\* mutant of _generate_surface_triangles: flip_normals is ignored
SurfaceTrianglesNoFlip(X, Y, Z, flip_normals) ==
    LET h == Rows(Z)
        w == Cols(Z)
    IN  [k \in 1..(2 * (h - 1) * (w - 1)) |->
            LET c == (k - 1) \div 2
                i == (c \div (w - 1)) + 1
                j == (c % (w - 1)) + 1
            IN  SurfaceCell(X, Y, Z, FALSE, i, j)[((k - 1) % 2) + 1]]

\* MeshGenerator._generate_surface_triangles: row-major over the cells
_generate_surface_triangles(X, Y, Z, flip_normals) ==
    LET h == Rows(Z)
        w == Cols(Z)
    IN  [k \in 1..(2 * (h - 1) * (w - 1)) |->
            LET c == (k - 1) \div 2
                i == (c \div (w - 1)) + 1
                j == (c % (w - 1)) + 1
            IN  SurfaceCell(X, Y, Z, flip_normals, i, j)[((k - 1) % 2) + 1]]

\* the wall quad over the grid edge from node a to node b (each <<row, col>>)
\* in the two windings the four loops use
WallQuad(X, Y, Z_top, Z_bottom, a, b, botFirst) ==
    LET v0_top == <<X[a[1]][a[2]], Y[a[1]][a[2]], Z_top[a[1]][a[2]]>>
        v1_top == <<X[b[1]][b[2]], Y[b[1]][b[2]], Z_top[b[1]][b[2]]>>
        v0_bot == <<X[a[1]][a[2]], Y[a[1]][a[2]], Z_bottom[a[1]][a[2]]>>
        v1_bot == <<X[b[1]][b[2]], Y[b[1]][b[2]], Z_bottom[b[1]][b[2]]>>
    IN  IF botFirst
        THEN << <<v0_bot, v1_bot, v0_top>>, <<v1_bot, v1_top, v0_top>> >>
        ELSE << <<v0_bot, v0_top, v1_bot>>, <<v1_bot, v0_top, v1_top>> >>

FrontWall(X, Y, Z_top, Z_bottom) ==
    [k \in 1..(2 * (Cols(Z_top) - 1)) |->
        LET j == ((k - 1) \div 2) + 1
        IN  WallQuad(X, Y, Z_top, Z_bottom, <<1, j>>, <<1, j + 1>>, TRUE)[((k - 1) % 2) + 1]]

\* the back wall left out when the grid has a single row
BackWallUnlessSingleRow(X, Y, Z_top, Z_bottom) ==
    LET h == Rows(Z_top)
    IN  [k \in 1..(IF h = 1 THEN 0 ELSE 2 * (Cols(Z_top) - 1)) |->
            LET j == ((k - 1) \div 2) + 1
            IN  WallQuad(X, Y, Z_top, Z_bottom, <<h, j>>, <<h, j + 1>>, FALSE)[((k - 1) % 2) + 1]]

BackWall(X, Y, Z_top, Z_bottom) ==
    LET h == Rows(Z_top)
    IN  [k \in 1..(2 * (Cols(Z_top) - 1)) |->
            LET j == ((k - 1) \div 2) + 1
            IN  WallQuad(X, Y, Z_top, Z_bottom, <<h, j>>, <<h, j + 1>>, FALSE)[((k - 1) % 2) + 1]]

LeftWall(X, Y, Z_top, Z_bottom) ==
    [k \in 1..(2 * (Rows(Z_top) - 1)) |->
        LET i == ((k - 1) \div 2) + 1
        IN  WallQuad(X, Y, Z_top, Z_bottom, <<i, 1>>, <<i + 1, 1>>, FALSE)[((k - 1) % 2) + 1]]

\* mutant of RightWall: the right wall is wound like the left wall
RightWallLikeLeft(X, Y, Z_top, Z_bottom) ==
    LET w == Cols(Z_top)
    IN  [k \in 1..(2 * (Rows(Z_top) - 1)) |->
            LET i == ((k - 1) \div 2) + 1
            IN  WallQuad(X, Y, Z_top, Z_bottom, <<i, w>>, <<i + 1, w>>, FALSE)[((k - 1) % 2) + 1]]

RightWall(X, Y, Z_top, Z_bottom) ==
    LET w == Cols(Z_top)
    IN  [k \in 1..(2 * (Rows(Z_top) - 1)) |->
            LET i == ((k - 1) \div 2) + 1
            IN  WallQuad(X, Y, Z_top, Z_bottom, <<i, w>>, <<i + 1, w>>, TRUE)[((k - 1) % 2) + 1]]

\* the walls appended as front, back, right, left
SideWallsRightBeforeLeft(X, Y, Z_top, Z_bottom) ==
    FrontWall(X, Y, Z_top, Z_bottom) \o BackWall(X, Y, Z_top, Z_bottom)
        \o RightWall(X, Y, Z_top, Z_bottom) \o LeftWall(X, Y, Z_top, Z_bottom)

\* mutant of _generate_side_walls: the left wall is left out
SideWallsWithoutLeft(X, Y, Z_top, Z_bottom) ==
    FrontWall(X, Y, Z_top, Z_bottom) \o BackWall(X, Y, Z_top, Z_bottom)
        \o RightWall(X, Y, Z_top, Z_bottom)

\* MeshGenerator._generate_side_walls: front, back, left, right
_generate_side_walls(X, Y, Z_top, Z_bottom) ==
    FrontWall(X, Y, Z_top, Z_bottom) \o BackWall(X, Y, Z_top, Z_bottom)
        \o LeftWall(X, Y, Z_top, Z_bottom) \o RightWall(X, Y, Z_top, Z_bottom)

\* MeshGenerator.create_relief_mesh: the triangles of the returned Mesh
create_relief_mesh(hm0, width_mm, height_mm, base_layer_mm, offset_x, offset_y) ==
    LET hm == fliplr(hm0)
        h == Rows(hm)
        w == Cols(hm)
        x == linspace(offset_x, offset_x + width_mm, w)
        y == linspace(offset_y, offset_y + height_mm, h)
        X == meshgridX(x, y)
        Y == meshgridY(x, y)
        Z_top == [i \in 1..h |-> [j \in 1..w |-> hm[i][j] + base_layer_mm]]
        Z_bottom == [i \in 1..h |-> [j \in 1..w |-> 0]]
        top_triangles == _generate_surface_triangles(X, Y, Z_top, FALSE)
        bottom_triangles == _generate_surface_triangles(X, Y, Z_bottom, TRUE)
        side_triangles == _generate_side_walls(X, Y, Z_top, Z_bottom)
    IN  Mesh(top_triangles \o bottom_triangles \o side_triangles)

\* mutant of BoxFaces: the second right-face triangle names corner 2 for 6
BoxFacesTypo ==
    << <<0, 2, 1>>, <<0, 3, 2>>,
       <<4, 5, 6>>, <<4, 6, 7>>,
       <<0, 1, 5>>, <<0, 5, 4>>,
       <<2, 7, 3>>, <<2, 6, 7>>,
       <<0, 4, 7>>, <<0, 7, 3>>,
       <<1, 6, 2>>, <<1, 5, 2>> >>

\* the face table of _create_box (corner indices 0..7)
BoxFaces ==
    << <<0, 2, 1>>, <<0, 3, 2>>,
       <<4, 5, 6>>, <<4, 6, 7>>,
       <<0, 1, 5>>, <<0, 5, 4>>,
       <<2, 7, 3>>, <<2, 6, 7>>,
       <<0, 4, 7>>, <<0, 7, 3>>,
       <<1, 6, 2>>, <<1, 5, 6>> >>

\* the corner table of _create_box (corner c is BoxCorners(...)[c + 1])
BoxCorners(x, y, width, depth, z_min, z_max) ==
    << <<x, y, z_min>>,
       <<x + width, y, z_min>>,
       <<x + width, y + depth, z_min>>,
       <<x, y + depth, z_min>>,
       <<x, y, z_max>>,
       <<x + width, y, z_max>>,
       <<x + width, y + depth, z_max>>,
       <<x, y + depth, z_max>> >>

\* MeshGenerator._create_box: the list of triangles
_create_box(x, y, width, depth, z_min, z_max) ==
    LET corners == BoxCorners(x, y, width, depth, z_min, z_max)
    IN  [f \in 1..Len(BoxFaces) |->
            <<corners[BoxFaces[f][1] + 1], corners[BoxFaces[f][2] + 1], corners[BoxFaces[f][3] + 1]>>]

\* mutant of BorderSegments: the back segment starts at height_mm, not at
\* height_mm + border_width_mm
BorderSegmentsBackMisplaced(width_mm, height_mm, border_width_mm) ==
    LET outer_w == width_mm + 2 * border_width_mm
    IN  << <<0, 0, outer_w, border_width_mm>>,
           <<0, height_mm, outer_w, border_width_mm>>,
           <<0, border_width_mm, border_width_mm, height_mm>>,
           <<width_mm + border_width_mm, border_width_mm, border_width_mm, height_mm>> >>

\* the segments list of add_border: (x0, y0, w, h) of front, back, left, right
BorderSegments(width_mm, height_mm, border_width_mm) ==
    LET outer_w == width_mm + 2 * border_width_mm
    IN  << <<0, 0, outer_w, border_width_mm>>,
           <<0, height_mm + border_width_mm, outer_w, border_width_mm>>,
           <<0, border_width_mm, border_width_mm, height_mm>>,
           <<width_mm + border_width_mm, border_width_mm, border_width_mm, height_mm>> >>

\* MeshGenerator.add_border: the returned Mesh
add_border(width_mm, height_mm, border_width_mm, border_depth_mm, base_layer_mm) ==
    LET z_top == base_layer_mm + border_depth_mm
        z_bot == 0
        segments == BorderSegments(width_mm, height_mm, border_width_mm)
        box(s) == _create_box(segments[s][1], segments[s][2], segments[s][3], segments[s][4], z_bot, z_top)
    IN  Mesh(box(1) \o box(2) \o box(3) \o box(4))

\* the loop of combine_meshes: copy every triangle of every mesh, in order
RECURSIVE CopyAll(_)
CopyAll(meshes) ==
    IF meshes = << >> THEN << >>
    ELSE Head(meshes).vectors \o CopyAll(Tail(meshes))

RECURSIVE SumFaces(_)
SumFaces(meshes) ==
    IF meshes = << >> THEN 0
    ELSE Len(Head(meshes).vectors) + SumFaces(Tail(meshes))

\* mutant of combine_meshes: the last triangle is never copied
combine_meshesDropLast(meshes) ==
    LET total_faces == SumFaces(meshes)
        copied == CopyAll(meshes)
    IN  Mesh([idx \in 1..(IF total_faces = 0 THEN 0 ELSE total_faces - 1) |-> copied[idx]])

\* MeshGenerator.combine_meshes: a new Mesh of total_faces triangles
combine_meshes(meshes) ==
    LET total_faces == SumFaces(meshes)
        copied == CopyAll(meshes)
    IN  Mesh([idx \in 1..total_faces |-> copied[idx]])

\* the coordinates of axis a (1 = x, 2 = y, 3 = z) over all vertices
AxisValues(m, a) == {m.vectors[t][v][a] : t \in 1..Len(m.vectors), v \in 1..3}

\* MeshGenerator.get_stats; numpy's min() of an empty array raises ValueError
get_stats(m) ==
    IF m = NoneVal THEN [type |-> "dict", keys |-> {}]
    ELSE IF Len(m.vectors) = 0 THEN Raised("ValueError")
    ELSE [type |-> "dict",
          keys |-> {"face_count", "vertex_count", "x_min", "x_max", "y_min", "y_max", "z_min", "z_max"},
          face_count |-> Len(m.vectors),
          vertex_count |-> Len(m.vectors) * 3,
          x_min |-> SetMin(AxisValues(m, 1)),
          x_max |-> SetMax(AxisValues(m, 1)),
          y_min |-> SetMin(AxisValues(m, 2)),
          y_max |-> SetMax(AxisValues(m, 2)),
          z_min |-> SetMin(AxisValues(m, 3)),
          z_max |-> SetMax(AxisValues(m, 3))]

----------------------------------------------------------------------------
(* STL files: Mesh.save as export_stl calls it *)

\* an exception with its message
RaisedMsg(exc, msg) == [type |-> "raise", exception |-> exc, message |-> msg]

\* a Python str
Str(text) == [type |-> "str", text |-> text]

\* the four bytes, least significant first, of a 32-bit pattern
\* (two's complement for a negative number)
LE4(n) ==
    LET b0 == n % 256
        n1 == (n - b0) \div 256
        b1 == n1 % 256
        n2 == (n1 - b1) \div 256
        b2 == n2 % 256
        n3 == (n2 - b2) \div 256
    IN  <<b0, b1, b2, n3 % 256>>

\* the four bytes of a float32 field: the fixed-point value's 32-bit pattern
\* stands for the IEEE-754 pattern of the float
F32(v) == LE4(v)

Vec3Bytes(p) == F32(p[1]) \o F32(p[2]) \o F32(p[3])

\* Mesh.update_normals, which save runs first: the cross product of two edges
update_normals(tri) ==
    LET u == <<tri[2][1] - tri[1][1], tri[2][2] - tri[1][2], tri[2][3] - tri[1][3]>>
        v == <<tri[3][1] - tri[1][1], tri[3][2] - tri[1][2], tri[3][3] - tri[1][3]>>
    IN  <<u[2] * v[3] - u[3] * v[2], u[3] * v[1] - u[1] * v[3], u[1] * v[2] - u[2] * v[1]>>

\* one record of the mesh dtype: normal, three vertices, 16-bit attribute
FacetRecord(tri) ==
    Vec3Bytes(update_normals(tri)) \o Vec3Bytes(tri[1]) \o Vec3Bytes(tri[2])
        \o Vec3Bytes(tri[3]) \o <<0, 0>>

RECURSIVE FacetRecords(_)
FacetRecords(triangles) ==
    IF triangles = << >> THEN << >>
    ELSE FacetRecord(Head(triangles)) \o FacetRecords(Tail(triangles))

\* length of the header line of a binary file
HeaderLen == 80

\* the header text cut or padded with spaces to HeaderLen characters
BinaryHeader == [k \in 1..HeaderLen |-> 32]

\* a file written without the triangle count
BinaryStlNoCount(m) ==
    [type |-> "bytes", data |-> BinaryHeader \o FacetRecords(m.vectors)]

\* Mesh.save in binary mode (the mode chosen for a path): header, count, records
BinaryStl(m) ==
    [type |-> "bytes",
     data |-> BinaryHeader \o LE4(Len(m.vectors)) \o FacetRecords(m.vectors)]

\* the lines of one facet of an ASCII file
AsciiFacet(tri) ==
    << <<"facet normal", update_normals(tri)>>, <<"outer loop">>,
       <<"vertex", tri[1]>>, <<"vertex", tri[2]>>, <<"vertex", tri[3]>>,
       <<"endloop">>, <<"endfacet">> >>

RECURSIVE AsciiFacets(_)
AsciiFacets(triangles) ==
    IF triangles = << >> THEN << >>
    ELSE AsciiFacet(Head(triangles)) \o AsciiFacets(Tail(triangles))

\* Mesh.save with mode = ASCII: the lines of the file
AsciiStl(m) ==
    [type |-> "text",
     lines |-> << <<"solid">> >> \o AsciiFacets(m.vectors) \o << <<"endsolid">> >>]

\* export_stl raising for a generator without a mesh, under another message
export_stl_retOtherError(m, path, binary) ==
    IF m = NoneVal THEN RaisedMsg("RuntimeError", "No mesh generated") ELSE Str(path)

\* MeshGenerator.export_stl: what the call returns or raises
export_stl_ret(m, path, binary) ==
    IF m = NoneVal THEN RaisedMsg("ValueError", "No mesh generated") ELSE Str(path)

\* MeshGenerator.export_stl: the file system after the call
export_stl_files(fs, m, path, binary) ==
    IF m = NoneVal THEN fs
    ELSE [fs EXCEPT ![path] = IF binary THEN BinaryStl(m) ELSE AsciiStl(m)]

----------------------------------------------------------------------------
(* HeightMapGenerator *)

\* the mapping without the min_depth_mm offset
generateNoOffset(processed_image, min_depth_mm, max_depth_mm) ==
    LET depth_range == max_depth_mm - min_depth_mm
    IN  Array([i \in 1..Rows(processed_image) |->
            [j \in 1..Cols(processed_image) |->
                (processed_image[i][j] * depth_range) \div 100]])

\* HeightMapGenerator.generate: luminance (hundredths, 100 = 1.0) to depth
generate(processed_image, min_depth_mm, max_depth_mm) ==
    LET depth_range == max_depth_mm - min_depth_mm
    IN  Array([i \in 1..Rows(processed_image) |->
            [j \in 1..Cols(processed_image) |->
                min_depth_mm + (processed_image[i][j] * depth_range) \div 100]])

\* Python int() of the rational num / den (den > 0): truncation toward zero
IntTrunc(num, den) == IF num >= 0 THEN num \div den ELSE -((-num) \div den)

\* ndarray indexing along an axis of length n with a 0-based index k:
\* k in -n..-1 counts from the end; anything else outside 0..n-1 is an IndexError
IndexOK(k, n) == -n <= k /\ k <= n - 1

Wrap(k, n) == IF k < 0 THEN k + n ELSE k

\* the neighbour index taken without the cap at the last row / column
PyMinUncapped(a, b) == a

PyMin(a, b) == IF a <= b THEN a ELSE b

\* HeightMapGenerator.sample_at for x = xn / den, y = yn / den; the returned
\* float is the exact rational num / (den * den)
sample_at(hm, xn, yn, den) ==
    IF hm = NoneVal THEN [type |-> "float", num |-> 0, den |-> den * den]
    ELSE
    LET h == Rows(hm.data)
        w == Cols(hm.data)
        \* px = pxn / den, py = pyn / den
        pxn == xn * (w - 1)
        pyn == yn * (h - 1)
        x0 == IntTrunc(pxn, den)
        y0 == IntTrunc(pyn, den)
        x1 == PyMin(x0 + 1, w - 1)
        y1 == PyMin(y0 + 1, h - 1)
        \* fx = fxn / den, fy = fyn / den
        fxn == pxn - x0 * den
        fyn == pyn - y0 * den
        at(r, c) == hm.data[Wrap(r, h) + 1][Wrap(c, w) + 1]
    IN  IF ~(IndexOK(y0, h) /\ IndexOK(x0, w) /\ IndexOK(y1, h) /\ IndexOK(x1, w))
        THEN Raised("IndexError")
        ELSE
        LET v00 == at(y0, x0)
            v10 == at(y0, x1)
            v01 == at(y1, x0)
            v11 == at(y1, x1)
            \* v0 = v0n / den, v1 = v1n / den
            v0n == v00 * (den - fxn) + v10 * fxn
            v1n == v01 * (den - fxn) + v11 * fxn
        IN  [type |-> "float", num |-> v0n * (den - fyn) + v1n * fyn, den |-> den * den]

\* a Python tuple returned to the caller
Tuple(items) == [type |-> "tuple", items |-> items]

\* get_dimensions without the test for a missing heightmap
get_dimensionsNoGuard(hm) ==
    IF hm = NoneVal THEN Raised("AttributeError")
    ELSE Tuple(<<Cols(hm.data), Rows(hm.data)>>)

\* HeightMapGenerator.get_dimensions
get_dimensions(hm) ==
    IF hm = NoneVal THEN Tuple(<<0, 0>>)
    ELSE Tuple(<<Cols(hm.data), Rows(hm.data)>>)

\* ndarray.flatten / tobytes order: row after row
RECURSIVE FlattenRows(_)
FlattenRows(rows) ==
    IF rows = << >> THEN << >> ELSE Head(rows) \o FlattenRows(Tail(rows))

RECURSIVE SeqSum(_)
SeqSum(xs) == IF xs = << >> THEN 0 ELSE Head(xs) + SeqSum(Tail(xs))

\* HeightMapGenerator.get_stats; the mean is the rational mean_num / count and
\* the standard deviation the square root of var_num / (count * count)
heightmap_get_stats(hm) ==
    IF hm = NoneVal THEN [type |-> "dict", keys |-> {}]
    ELSE LET xs == FlattenRows(hm.data)
             n == Len(xs)
             total == SeqSum(xs)
             squares == SeqSum([k \in 1..n |-> xs[k] * xs[k]])
         IN  [type |-> "dict",
              keys |-> {"min_mm", "max_mm", "mean_mm", "std_mm"},
              min_mm |-> SetMin({xs[k] : k \in 1..n}),
              max_mm |-> SetMax({xs[k] : k \in 1..n}),
              count |-> n,
              mean_num |-> total,
              var_num |-> n * squares - total * total]

\* ndarray.astype(np.float32).tobytes(): four bytes per sample, row-major
RECURSIVE ToBytes(_)
ToBytes(xs) == IF xs = << >> THEN << >> ELSE F32(Head(xs)) \o ToBytes(Tail(xs))

\* base64.b64encode: three bytes give four characters, written as their
\* indices 0..63 in the base64 alphabet; 64 stands for the padding '='
RECURSIVE b64encode(_)
b64encode(b) ==
    IF Len(b) = 0 THEN << >>
    ELSE IF Len(b) = 1 THEN <<b[1] \div 4, (b[1] % 4) * 16, 64, 64>>
    ELSE IF Len(b) = 2
         THEN <<b[1] \div 4, (b[1] % 4) * 16 + (b[2] \div 16), (b[2] % 16) * 4, 64>>
    ELSE <<b[1] \div 4, (b[1] % 4) * 16 + (b[2] \div 16),
           (b[2] % 16) * 4 + (b[3] \div 64), b[3] % 64>>
             \o b64encode(SubSeq(b, 4, Len(b)))

\* base64.b64decode of a well-formed string
RECURSIVE b64decode(_)
b64decode(c) ==
    IF Len(c) = 0 THEN << >>
    ELSE LET first == <<c[1] * 4 + (c[2] \div 16)>>
             second == <<(c[2] % 16) * 16 + (c[3] \div 4)>>
             third == <<(c[3] % 4) * 64 + c[4]>>
         IN  IF c[3] = 64 THEN first
             ELSE IF c[4] = 64 THEN first \o second
             ELSE first \o second \o third \o b64decode(SubSeq(c, 5, Len(c)))

\* np.float32 read from four bytes: the value whose 32-bit pattern they are
FromF32(b) ==
    b[1] + 256 * b[2] + 65536 * b[3]
        + 16777216 * (IF b[4] >= 128 THEN b[4] - 256 ELSE b[4])

\* np.frombuffer(raw_bytes, dtype=np.float32) for a whole number of samples
frombuffer(b) == [k \in 1..(Len(b) \div 4) |-> FromF32(SubSeq(b, 4 * k - 3, 4 * k))]

\* HeightMapGenerator.to_base64
to_base64(hm) ==
    IF hm = NoneVal THEN RaisedMsg("ValueError", "No heightmap generated")
    ELSE Str(b64encode(ToBytes(FlattenRows(hm.data))))

\* reshape with the two sizes exchanged
reshapeTransposed(xs, height, width) ==
    [i \in 1..width |-> [j \in 1..height |-> xs[(i - 1) * height + j]]]

\* ndarray.reshape((height, width)) of a flat array of height * width samples
reshape(xs, height, width) ==
    [i \in 1..height |-> [j \in 1..width |-> xs[(i - 1) * width + j]]]

\* from_base64 leaving the range of the new generator at its defaults
from_base64DefaultRange(data, width, height) ==
    LET raw_bytes == b64decode(data)
        flat == frombuffer(raw_bytes)
    IN  IF Len(raw_bytes) % 4 # 0 \/ Len(flat) # height * width
        THEN Raised("ValueError")
        ELSE [type |-> "HeightMapGenerator",
              heightmap |-> Array(reshape(flat, height, width)),
              min_depth |-> 0,
              max_depth |-> 100]

\* HeightMapGenerator.from_base64: the new generator, or the error of
\* frombuffer (a size that is no multiple of 4) or of reshape (a wrong size)
from_base64(data, width, height) ==
    LET raw_bytes == b64decode(data)
        flat == frombuffer(raw_bytes)
    IN  IF Len(raw_bytes) % 4 # 0 \/ Len(flat) # height * width
        THEN Raised("ValueError")
        ELSE [type |-> "HeightMapGenerator",
              heightmap |-> Array(reshape(flat, height, width)),
              min_depth |-> SetMin({flat[k] : k \in 1..Len(flat)}),
              max_depth |-> SetMax({flat[k] : k \in 1..Len(flat)})]

PyMax(a, b) == IF a >= b THEN a ELSE b

\* np.min and np.max of a 2-D array
GridMinOf(data) == SetMin({data[i][j] : i \in 1..Rows(data), j \in 1..Cols(data)})

GridMaxOf(data) == SetMax({data[i][j] : i \in 1..Rows(data), j \in 1..Cols(data)})

\* the radius handed to ImageFilter.GaussianBlur for a sigma in hundredths
blur_radius(sigma) == PyMax(1, IntTrunc(sigma, 100))

\* whether _gaussian_blur hands the data to the imaging library: not for
\* sigma <= 0, nor for data whose samples are all (nearly) equal
blur_filters(data, sigma) ==
    /\ sigma > 0
    /\ GridMaxOf(data) # GridMinOf(data)

\* pixel values (uint8) the filtered image is let to take in the model
PixelLevels == {0, 128, 255}

\* the images GaussianBlur may return for an image of the shape of data:
\* every pixel lies in 0..255, and which value it takes is left open
FilteredImages(data) == [1..Rows(data) -> [1..Cols(data) -> PixelLevels]]

\* HeightMapGenerator._gaussian_blur, given the image pil_img the filter returns
_gaussian_blur(data, sigma, pil_img) ==
    IF ~blur_filters(data, sigma) THEN data
    ELSE LET min_val == GridMinOf(data)
             max_val == GridMaxOf(data)
         IN  [i \in 1..Rows(data) |-> [j \in 1..Cols(data) |->
                 min_val + (pil_img[i][j] * (max_val - min_val)) \div 255]]

\* np.clip(a, a_min, a_max): minimum(maximum(a, a_min), a_max)
clip(a, a_min, a_max) ==
    [i \in 1..Rows(a) |-> [j \in 1..Cols(a) |-> PyMin(PyMax(a[i][j], a_min), a_max)]]

\* HeightMapGenerator.apply_detail_controls for detail_size in hundredths:
\* amount = (detail_size - 100) / 200
apply_detail_controls(hm, detail_size, self_min_depth, self_max_depth, pil_img) ==
    IF detail_size = 100 THEN hm
    ELSE IF detail_size < 100
         THEN _gaussian_blur(hm, (100 - detail_size) * 3, pil_img)
    ELSE LET blurred == _gaussian_blur(hm, 100, pil_img)
             sharpened == [i \in 1..Rows(hm) |-> [j \in 1..Cols(hm) |->
                 hm[i][j] + ((detail_size - 100) * (hm[i][j] - blurred[i][j])) \div 200]]
         IN  clip(sharpened, self_min_depth, self_max_depth)

\* the sigma apply_detail_controls hands to _gaussian_blur (hundredths)
detail_sigma(detail_size) ==
    IF detail_size < 100 THEN (100 - detail_size) * 3 ELSE 100

----------------------------------------------------------------------------
(* The state machines.  Every call is one action: it records its name and  *)
(* arguments in call and its result in ret.                                *)

\* HeightMapGenerator.__init__
HeightMapGeneratorInit ==
    /\ heightmap = NoneVal
    /\ min_depth = 0
    /\ max_depth = 100

\* the path a caller writes to
Paths == {"out.stl"}

\* no file exists yet
FileSystemInit == files = [p \in Paths |-> NoneVal]

\* the imaging library has not been called yet
PilInit == pil = NoneVal

\* ColorPlanner.__init__
ColorPlannerInit ==
    /\ filaments = <<>>
    /\ stops = <<>>
    /\ swaps = <<>>

\* MeshGenerator.__init__
MeshGeneratorInit ==
    /\ mesh = NoneVal
    /\ border = NoneVal
    /\ reliefArgs = NoneVal
    /\ call = [op |-> "__init__"]
    /\ ret = NoneVal

meshVars == <<mesh, callerHeightmap, border, reliefArgs>>

fsVars == <<files, pil>>

hmVars == <<heightmap, min_depth, max_depth>>

plannerVars == <<filaments, stops, swaps>>

\* the caller's array after create_relief_mesh returns: fliplr gives a view
\* bound to the local name and Z_top is a new array, so nothing is written
CallerArrayAfter(a) == a

CreateReliefMesh ==
    \E ps \in PhysicalSpecs :
        LET m == create_relief_mesh(callerHeightmap, ps.width_mm, ps.height_mm,
                                    ps.base_layer_mm, ps.offset_x, ps.offset_y)
        IN  /\ mesh' = m
            /\ ret' = m
            /\ reliefArgs' = ps
            /\ callerHeightmap' = CallerArrayAfter(callerHeightmap)
            /\ call' = [op |-> "create_relief_mesh", heightmap |-> callerHeightmap, args |-> ps]
            /\ UNCHANGED <<border, hmVars, fsVars, plannerVars>>

\* add_border storing the border as the generator's mesh
AddBorderStoresMesh ==
    \E bs \in BorderSpecs :
        LET b == add_border(bs.width_mm, bs.height_mm, bs.border_width_mm,
                            bs.border_depth_mm, bs.base_layer_mm)
        IN  /\ ret' = b
            /\ border' = b
            /\ mesh' = b
            /\ call' = [op |-> "add_border", args |-> bs]
            /\ UNCHANGED <<callerHeightmap, reliefArgs, hmVars, fsVars, plannerVars>>

\* add_border called by a caller that keeps the returned mesh
AddBorder ==
    \E bs \in BorderSpecs :
        LET b == add_border(bs.width_mm, bs.height_mm, bs.border_width_mm,
                            bs.border_depth_mm, bs.base_layer_mm)
        IN  /\ ret' = b
            /\ border' = b
            /\ call' = [op |-> "add_border", args |-> bs]
            /\ UNCHANGED <<mesh, callerHeightmap, reliefArgs, hmVars, fsVars, plannerVars>>

\* add_border called by a caller that only inspects the returned mesh
AddBorderAny ==
    \E bs \in BorderArgs :
        /\ ret' = add_border(bs.width_mm, bs.height_mm, bs.border_width_mm,
                             bs.border_depth_mm, bs.base_layer_mm)
        /\ call' = [op |-> "add_border", args |-> bs]
        /\ UNCHANGED <<meshVars, hmVars, fsVars, plannerVars>>

CreateBox ==
    \E b \in BoxArgs :
        /\ ret' = List(_create_box(b.x, b.y, b.width, b.depth, b.z_min, b.z_max))
        /\ call' = [op |-> "_create_box", args |-> b]
        /\ UNCHANGED <<meshVars, hmVars, fsVars, plannerVars>>

\* the Mesh objects the caller holds and can pass to combine_meshes
HeldMeshes == {m \in {mesh, border} : m # NoneVal}

\* the generator's mesh after combine_meshes returns: the method only reads
CombineLeaves(m) == m

CombineMeshes ==
    \E n \in 0..MaxMeshes :
        \E meshes \in [1..n -> HeldMeshes] :
            /\ ret' = combine_meshes(meshes)
            /\ mesh' = CombineLeaves(mesh)
            /\ border' = CombineLeaves(border)
            /\ call' = [op |-> "combine_meshes", meshes |-> meshes]
            /\ UNCHANGED <<callerHeightmap, reliefArgs, hmVars, fsVars, plannerVars>>

GetStats ==
    /\ ret' = get_stats(mesh)
    /\ call' = [op |-> "get_stats"]
    /\ UNCHANGED <<meshVars, hmVars, fsVars, plannerVars>>

ExportStl ==
    \E path \in Paths, binary \in BOOLEAN :
        /\ ret' = export_stl_ret(mesh, path, binary)
        /\ files' = export_stl_files(files, mesh, path, binary)
        /\ call' = [op |-> "export_stl", path |-> path, binary |-> binary]
        /\ UNCHANGED <<meshVars, hmVars, pil, plannerVars>>

\* luminance images handed to generate (hundredths), and depth ranges
Luminances == {0, 100}

\* the image of test_generate_linear_mapping
linear_image == << <<0, 50>>, <<50, 100>> >>

Images == Grids(Luminances, MaxSmallCells) \cup {linear_image}

DepthRanges == {<<48, 224>>, <<0, 100>>, <<200, 100>>}

GenerateFrom(images) ==
    \E img \in images, r \in DepthRanges :
        LET hm == generate(img, r[1], r[2])
        IN  /\ min_depth' = r[1]
            /\ max_depth' = r[2]
            /\ heightmap' = hm
            /\ ret' = hm
            /\ call' = [op |-> "generate", processed_image |-> img, min_depth_mm |-> r[1], max_depth_mm |-> r[2]]
            /\ UNCHANGED <<meshVars, fsVars, plannerVars>>

Generate == GenerateFrom(Images)

\* generate on the image of test_generate_linear_mapping only
GenerateLinear == GenerateFrom({linear_image})

GetDimensions ==
    /\ ret' = get_dimensions(heightmap)
    /\ call' = [op |-> "get_dimensions"]
    /\ UNCHANGED <<meshVars, hmVars, fsVars, plannerVars>>

HeightmapGetStats ==
    /\ ret' = heightmap_get_stats(heightmap)
    /\ call' = [op |-> "HeightMapGenerator.get_stats"]
    /\ UNCHANGED <<meshVars, hmVars, fsVars, plannerVars>>

\* the generator after to_base64 returns: astype makes a copy, nothing is written
ToBase64Leaves(hm) == hm

ToBase64 ==
    /\ ret' = to_base64(heightmap)
    /\ heightmap' = ToBase64Leaves(heightmap)
    /\ call' = [op |-> "to_base64"]
    /\ UNCHANGED <<meshVars, min_depth, max_depth, fsVars, plannerVars>>

\* widths and heights handed to from_base64
Dims == 1..MaxSmallCells

\* from_base64 on the string the last to_base64 returned; the class method
\* builds a new generator and leaves the one that made the string alone
FromBase64 ==
    /\ call.op = "to_base64"
    /\ ret.type = "str"
    /\ \E width \in Dims, height \in Dims :
           /\ ret' = from_base64(ret.text, width, height)
           /\ call' = [op |-> "from_base64", data |-> ret.text, width |-> width, height |-> height]
    /\ UNCHANGED <<meshVars, hmVars, fsVars, plannerVars>>

\* detail_size values handed to apply_detail_controls (hundredths)
DetailSizes == {10, 50, 100, 200}

\* images for the generator whose heightmap is then filtered
DetailImages == Grids(Luminances, MaxDetailCells) \cup {linear_image}

GenerateDetail == GenerateFrom(DetailImages)

\* apply_detail_controls on the heightmap the generator produced; pil_img is
\* what the imaging library returns if it is called
ApplyDetailControls ==
    /\ heightmap # NoneVal
    /\ \E detail_size \in DetailSizes, pil_img \in FilteredImages(heightmap.data) :
           /\ ret' = Array(apply_detail_controls(heightmap.data, detail_size,
                                                 min_depth, max_depth, pil_img))
           /\ pil' = IF detail_size # 100
                         /\ blur_filters(heightmap.data, detail_sigma(detail_size))
                      THEN [op |-> "GaussianBlur",
                            radius |-> blur_radius(detail_sigma(detail_size))]
                      ELSE pil
           /\ call' = [op |-> "apply_detail_controls", detail_size |-> detail_size]
    /\ UNCHANGED <<meshVars, hmVars, files, plannerVars>>

\* normalised coordinates n / CoordDen, from -MaxCoord / CoordDen to MaxCoord / CoordDen
Coords == (-MaxCoord)..MaxCoord

SampleAtIn(coords) ==
    \E xn \in coords, yn \in coords :
        /\ ret' = sample_at(heightmap, xn, yn, CoordDen)
        /\ call' = [op |-> "sample_at", x |-> xn, y |-> yn]
        /\ UNCHANGED <<meshVars, hmVars, fsVars, plannerVars>>

SampleAt == SampleAtIn(Coords)

\* sample_at at the coordinates 0, 1 / CoordDen, ..., 1 of the unit square
SampleAtUnit == SampleAtIn(0..CoordDen)

(* One MeshGenerator used by a caller, all its public methods *)
Init ==
    /\ MeshGeneratorInit
    /\ callerHeightmap \in SmallHeightMaps
    /\ HeightMapGeneratorInit
    /\ FileSystemInit
    /\ PilInit
    /\ ColorPlannerInit

Next ==
    \/ CreateReliefMesh
    \/ AddBorder
    \/ CombineMeshes
    \/ GetStats

Spec == Init /\ [][Next]_vars

(* create_relief_mesh and get_stats over the enumerated height fields *)
InitRelief ==
    /\ MeshGeneratorInit
    /\ callerHeightmap \in HeightMaps
    /\ HeightMapGeneratorInit
    /\ FileSystemInit
    /\ PilInit
    /\ ColorPlannerInit

NextRelief ==
    \/ CreateReliefMesh
    \/ GetStats

SpecRelief == InitRelief /\ [][NextRelief]_vars

(* create_relief_mesh, export_stl and get_stats on one generator *)
InitExport ==
    /\ MeshGeneratorInit
    /\ callerHeightmap \in SmallHeightMaps
    /\ HeightMapGeneratorInit
    /\ FileSystemInit
    /\ PilInit
    /\ ColorPlannerInit

NextExport ==
    \/ CreateReliefMesh
    \/ ExportStl
    \/ GetStats

SpecExport == InitExport /\ [][NextExport]_vars

\* the 1x1 height field, which gives a mesh without triangles, and the
\* expected array of test_generate_linear_mapping
ProbeHeightMaps == { << <<150>> >>, << <<100, 200>>, <<200, 300>> >> }

(* a MeshGenerator and a HeightMapGenerator probed before and after they are filled *)
InitObjects ==
    /\ MeshGeneratorInit
    /\ callerHeightmap \in ProbeHeightMaps
    /\ HeightMapGeneratorInit
    /\ FileSystemInit
    /\ PilInit
    /\ ColorPlannerInit

NextObjects ==
    \/ CreateReliefMesh
    \/ ExportStl
    \/ GetStats
    \/ GenerateLinear
    \/ ToBase64
    \/ SampleAt
    \/ HeightmapGetStats
    \/ GetDimensions

SpecObjects == InitObjects /\ [][NextObjects]_vars

(* generate and apply_detail_controls on one HeightMapGenerator *)
InitDetail ==
    /\ MeshGeneratorInit
    /\ callerHeightmap = << <<0>> >>
    /\ HeightMapGeneratorInit
    /\ FileSystemInit
    /\ PilInit
    /\ ColorPlannerInit

NextDetail ==
    \/ GenerateDetail
    \/ ApplyDetailControls

SpecDetail == InitDetail /\ [][NextDetail]_vars

(* every public method of one MeshGenerator, export_stl included *)
InitFrame ==
    /\ MeshGeneratorInit
    /\ callerHeightmap \in ProbeHeightMaps
    /\ HeightMapGeneratorInit
    /\ FileSystemInit
    /\ PilInit
    /\ ColorPlannerInit

NextFrame ==
    \/ CreateReliefMesh
    \/ AddBorder
    \/ CombineMeshes
    \/ GetStats
    \/ ExportStl

SpecFrame == InitFrame /\ [][NextFrame]_vars

(* every method of one HeightMapGenerator that reads or writes its depth range *)
InitRange ==
    /\ MeshGeneratorInit
    /\ callerHeightmap = << <<0>> >>
    /\ HeightMapGeneratorInit
    /\ FileSystemInit
    /\ PilInit
    /\ ColorPlannerInit

NextRange ==
    \/ GenerateDetail
    \/ ApplyDetailControls
    \/ SampleAtUnit
    \/ HeightmapGetStats
    \/ ToBase64
    \/ FromBase64

SpecRange == InitRange /\ [][NextRange]_vars

(* add_border and _create_box over the enumerated arguments *)
InitBox ==
    /\ MeshGeneratorInit
    /\ callerHeightmap = << <<0>> >>
    /\ HeightMapGeneratorInit
    /\ FileSystemInit
    /\ PilInit
    /\ ColorPlannerInit

NextBox ==
    \/ AddBorderAny
    \/ CreateBox

SpecBox == InitBox /\ [][NextBox]_vars

(* One HeightMapGenerator: generate and sample_at *)
InitHeightmap ==
    /\ MeshGeneratorInit
    /\ callerHeightmap = << <<0>> >>
    /\ HeightMapGeneratorInit
    /\ FileSystemInit
    /\ PilInit
    /\ ColorPlannerInit

NextHeightmap ==
    \/ Generate
    \/ SampleAt
    \/ GetDimensions
    \/ HeightmapGetStats
    \/ ToBase64
    \/ FromBase64

SpecHeightmap == InitHeightmap /\ [][NextHeightmap]_vars

----------------------------------------------------------------------------
(* Vocabulary of the properties *)

\* the directed edge k (1..3) of a triangle: from vertex k to the next one
EdgeFrom(tri, k) == tri[k]

EdgeTo(tri, k) == tri[(k % 3) + 1]

\* how many (triangle, edge) pairs of tris run from vertex a to vertex b
Traversals(tris, a, b) ==
    Cardinality({e \in (1..Len(tris)) \X (1..3) :
                    EdgeFrom(tris[e[1]], e[2]) = a /\ EdgeTo(tris[e[1]], e[2]) = b})

\* every edge of every triangle joins two distinct vertices and belongs to
\* exactly two triangles
EveryEdgeInTwoTriangles(tris) ==
    \A t \in 1..Len(tris), k \in 1..3 :
        LET a == EdgeFrom(tris[t], k)
            b == EdgeTo(tris[t], k)
        IN  a # b /\ Traversals(tris, a, b) + Traversals(tris, b, a) = 2

\* ... and the two triangles traverse it in opposite directions
ClosedTwoManifold(tris) ==
    \A t \in 1..Len(tris), k \in 1..3 :
        LET a == EdgeFrom(tris[t], k)
            b == EdgeTo(tris[t], k)
        IN  a # b /\ Traversals(tris, a, b) = 1 /\ Traversals(tris, b, a) = 1

\* right-hand-rule normal of a triangle (not normalised)
Normal(tri) ==
    LET u == <<tri[2][1] - tri[1][1], tri[2][2] - tri[1][2], tri[2][3] - tri[1][3]>>
        v == <<tri[3][1] - tri[1][1], tri[3][2] - tri[1][2], tri[3][3] - tri[1][3]>>
    IN  <<u[2] * v[3] - u[3] * v[2], u[3] * v[1] - u[1] * v[3], u[1] * v[2] - u[2] * v[1]>>

PointsTo(tri, axis, sign) ==
    /\ Normal(tri)[axis] * sign > 0
    /\ \A a \in 1..3 : a # axis => Normal(tri)[a] = 0

GridMax(a) == SetMax({a[i][j] : i \in 1..Rows(a), j \in 1..Cols(a)})

GridMin(a) == SetMin({a[i][j] : i \in 1..Rows(a), j \in 1..Cols(a)})

\* the last call was create_relief_mesh on a grid of at least 2 x 2 samples
ReliefBuilt ==
    /\ call.op = "create_relief_mesh"
    /\ Rows(call.heightmap) >= 2
    /\ Cols(call.heightmap) >= 2

\* closed-form triangle count of the relief of an h x w grid
ReliefFaces(h, w) == 4 * (h - 1) * (w - 1) + 4 * (w - 1) + 4 * (h - 1)

----------------------------------------------------------------------------
(* C1..C10 *)

\* C1: for a heightmap of at least 2 x 2 samples whose top surface
\* (heightmap + base_layer_mm) is above z = 0 everywhere, the triangles
\* returned by create_relief_mesh form a closed two-manifold: every edge of
\* every triangle occurs in exactly two triangles, traversed once in each
\* direction.
C1_ReliefClosedTwoManifold ==
    (ReliefBuilt /\ GridMin(call.heightmap) + call.args.base_layer_mm > 0)
        => ClosedTwoManifold(ret.vectors)

\* a relief with interior surface edges, walls on all four sides, and a
\* non-flat top
C1_Witness ==
    /\ ReliefBuilt
    /\ Rows(call.heightmap) * Cols(call.heightmap) >= 6
    /\ GridMin(call.heightmap) = 0
    /\ GridMax(call.heightmap) > 0
    /\ call.args.base_layer_mm > 0
    /\ ClosedTwoManifold(ret.vectors)

\* C2: in the relief of a grid of at least 2 x 2 samples with positive
\* width_mm and height_mm and the top surface above z = 0, every triangle's
\* right-hand normal points out of the solid: top +Z, bottom -Z, front wall
\* -Y, back wall +Y, left wall -X, right wall +X.
C2_ReliefNormalsOutward ==
    (/\ ReliefBuilt
     /\ call.args.width_mm > 0
     /\ call.args.height_mm > 0
     /\ GridMin(call.heightmap) + call.args.base_layer_mm > 0)
    => LET h == Rows(call.heightmap)
           w == Cols(call.heightmap)
           nS == 2 * (h - 1) * (w - 1)
           nW == 2 * (w - 1)
           nH == 2 * (h - 1)
           tris == ret.vectors
       IN  /\ Len(tris) = 2 * nS + 2 * nW + 2 * nH
           /\ \A t \in 1..nS : Normal(tris[t])[3] > 0
           /\ \A t \in (nS + 1)..(2 * nS) : Normal(tris[t])[3] < 0
           /\ \A t \in (2 * nS + 1)..(2 * nS + nW) : PointsTo(tris[t], 2, -1)
           /\ \A t \in (2 * nS + nW + 1)..(2 * nS + 2 * nW) : PointsTo(tris[t], 2, 1)
           /\ \A t \in (2 * nS + 2 * nW + 1)..(2 * nS + 2 * nW + nH) : PointsTo(tris[t], 1, -1)
           /\ \A t \in (2 * nS + 2 * nW + nH + 1)..(2 * nS + 2 * nW + 2 * nH) : PointsTo(tris[t], 1, 1)

\* a relief with a sloped top, so that the top normals are not vertical
C2_Witness ==
    /\ ReliefBuilt
    /\ GridMin(call.heightmap) + call.args.base_layer_mm > 0
    /\ GridMax(call.heightmap) > GridMin(call.heightmap)
    /\ \E t \in 1..(2 * (Rows(call.heightmap) - 1) * (Cols(call.heightmap) - 1)) :
           Normal(ret.vectors[t])[3] > 0 /\ Normal(ret.vectors[t])[1] # 0

\* the last call was _create_box with positive width, depth and height
BoxBuilt ==
    /\ call.op = "_create_box"
    /\ call.args.width > 0
    /\ call.args.depth > 0
    /\ call.args.z_max > call.args.z_min

\* face f (1..6: bottom, top, front, back, left, right) of the box of the
\* last _create_box call: the coordinate axis it is normal to, the value of
\* that coordinate on the face, and the outward direction
BoxFacePlane(f) ==
    LET b == call.args
    IN  << <<3, b.z_min, -1>>, <<3, b.z_max, 1>>,
           <<2, b.y, -1>>, <<2, b.y + b.depth, 1>>,
           <<1, b.x, -1>>, <<1, b.x + b.width, 1>> >>[f]

BoxCornerSet ==
    LET b == call.args
    IN  {<<cx, cy, cz>> : cx \in {b.x, b.x + b.width}, cy \in {b.y, b.y + b.depth},
                          cz \in {b.z_min, b.z_max}}

\* C3: a box built by _create_box with positive width, depth and
\* z_max > z_min has exactly 12 triangles on its 8 corners, two on each of
\* the six faces, and every edge used by a triangle of the box is used by
\* exactly two of its triangles.
C3_BoxClosed12 ==
    BoxBuilt =>
        LET tris == ret.items
        IN  /\ Len(tris) = 12
            /\ \A t \in 1..12, v \in 1..3 : tris[t][v] \in BoxCornerSet
            /\ \A f \in 1..6 : \A t \in {2 * f - 1, 2 * f}, v \in 1..3 :
                   tris[t][v][BoxFacePlane(f)[1]] = BoxFacePlane(f)[2]
            /\ \A f \in 1..6 : tris[2 * f - 1] # tris[2 * f]
            /\ Cardinality({tris[t][v] : t \in 1..12, v \in 1..3}) = 8
            /\ EveryEdgeInTwoTriangles(tris)

\* a proper box away from the origin
C3_Witness ==
    /\ BoxBuilt
    /\ call.args.x # 0
    /\ call.args.z_min > 0
    /\ Len(ret.items) = 12
    /\ EveryEdgeInTwoTriangles(ret.items)

\* C4: every triangle of a box built by _create_box is wound so that its
\* right-hand normal points out of the box as documented per face (bottom
\* -Z, top +Z, front -Y, back +Y, left -X, right +X), and each edge shared by
\* two triangles of the box is traversed in opposite directions by them.
C4_BoxNormalsOutward ==
    BoxBuilt =>
        /\ \A f \in 1..6 : \A t \in {2 * f - 1, 2 * f} :
               PointsTo(ret.items[t], BoxFacePlane(f)[1], BoxFacePlane(f)[3])
        /\ ClosedTwoManifold(ret.items)

\* get_stats was called on the relief built from a grid of at least 2 x 2
StatsOfRelief ==
    /\ call.op = "get_stats"
    /\ mesh # NoneVal
    /\ Rows(callerHeightmap) >= 2
    /\ Cols(callerHeightmap) >= 2

\* C5: for a heightmap of at least 2 x 2 samples with non-negative top
\* surface and positive width_mm and height_mm, get_stats reports the
\* bounding box x in [offset_x, offset_x + width_mm], y in [offset_y,
\* offset_y + height_mm], z in [0, max(heightmap) + base_layer_mm]; the 8 x 8
\* field 0.5..2.0 with width 100, height 80, base 0.16 spans [0,100] x
\* [0,80] x [0,2.16].
C5_ReliefBoundingBox ==
    /\ (/\ StatsOfRelief
        /\ reliefArgs.width_mm > 0
        /\ reliefArgs.height_mm > 0
        /\ GridMin(callerHeightmap) + reliefArgs.base_layer_mm >= 0)
       => /\ ret.type = "dict"
          /\ ret.x_min = reliefArgs.offset_x
          /\ ret.x_max = reliefArgs.offset_x + reliefArgs.width_mm
          /\ ret.y_min = reliefArgs.offset_y
          /\ ret.y_max = reliefArgs.offset_y + reliefArgs.height_mm
          /\ ret.z_min = 0
          /\ ret.z_max = GridMax(callerHeightmap) + reliefArgs.base_layer_mm
    /\ (/\ StatsOfRelief
        /\ callerHeightmap = sample_heightmap
        /\ reliefArgs = [width_mm |-> 10000, height_mm |-> 8000, base_layer_mm |-> 16,
                         offset_x |-> 0, offset_y |-> 0])
       => /\ <<ret.x_min, ret.x_max>> = <<0, 10000>>
          /\ <<ret.y_min, ret.y_max>> = <<0, 8000>>
          /\ <<ret.z_min, ret.z_max>> = <<0, 216>>

\* the statistics of a relief placed at a non-zero offset whose grid step
\* does not divide the width
C5_Witness ==
    /\ StatsOfRelief
    /\ Cols(callerHeightmap) = 3
    /\ reliefArgs.offset_x < 0
    /\ reliefArgs.offset_y > 0
    /\ ret.type = "dict"
    /\ ret.x_max = reliefArgs.offset_x + reliefArgs.width_mm
    /\ ret.z_max = 150

\* C6: on an h x w heightmap with h >= 2 and w >= 2 create_relief_mesh
\* returns exactly 4(h-1)(w-1) + 4(w-1) + 4(h-1) triangles (252 for 8 x 8),
\* and get_stats then reports face_count equal to that number and
\* vertex_count = 3 * face_count.
C6_ReliefFaceCount ==
    /\ ReliefBuilt =>
           /\ Len(ret.vectors) = ReliefFaces(Rows(call.heightmap), Cols(call.heightmap))
           /\ call.heightmap = sample_heightmap => Len(ret.vectors) = 252
    /\ StatsOfRelief =>
           /\ ret.type = "dict"
           /\ ret.face_count = ReliefFaces(Rows(callerHeightmap), Cols(callerHeightmap))
           /\ ret.vertex_count = 3 * ret.face_count
           /\ callerHeightmap = sample_heightmap => ret.face_count = 252

\* the statistics of the relief of a non-square grid
C6_Witness ==
    /\ StatsOfRelief
    /\ Rows(callerHeightmap) = 2
    /\ Cols(callerHeightmap) = 3
    /\ ret.type = "dict"
    /\ ret.face_count = 20
    /\ ret.vertex_count = 60

\* the vertices of triangles first..last of the returned mesh
VerticesOf(first, last) == {ret.vectors[t][v] : t \in first..last, v \in 1..3}

\* C7: create_relief_mesh mirrors the height field left to right: the
\* top-surface vertex at grid row i, column j (0-based), at x = offset_x +
\* j/(w-1)*width_mm, y = offset_y + i/(h-1)*height_mm, has z =
\* heightmap[i][w-1-j] + base_layer_mm, the matching bottom vertex has z = 0,
\* and the caller's heightmap array is left unmodified.
C7_ReliefMirrored ==
    ReliefBuilt =>
        LET hm == call.heightmap
            a == call.args
            h == Rows(hm)
            w == Cols(hm)
            nS == 2 * (h - 1) * (w - 1)
            xAt(j) == a.offset_x + (j * a.width_mm) \div (w - 1)
            yAt(i) == a.offset_y + (i * a.height_mm) \div (h - 1)
        IN  /\ VerticesOf(1, nS) =
                   {<<xAt(j), yAt(i), hm[i + 1][(w - 1 - j) + 1] + a.base_layer_mm>> :
                        i \in 0..(h - 1), j \in 0..(w - 1)}
            /\ VerticesOf(nS + 1, 2 * nS) =
                   {<<xAt(j), yAt(i), 0>> : i \in 0..(h - 1), j \in 0..(w - 1)}
            /\ callerHeightmap = hm

\* a relief of a heightmap that differs from its mirror image
C7_Witness ==
    /\ ReliefBuilt
    /\ call.heightmap # fliplr(call.heightmap)
    /\ Cols(call.heightmap) = 3
    /\ call.heightmap[1][1] # call.heightmap[1][3]
    /\ <<call.args.offset_x, call.args.offset_y,
         call.heightmap[1][3] + call.args.base_layer_mm>> \in VerticesOf(1, 1)

\* C8: add_border(width_mm, height_mm, border_width_mm, border_depth_mm,
\* base_layer_mm) returns exactly 48 triangles whose bounding box is x in
\* [0, width_mm + 2*border_width_mm], y in [0, height_mm + 2*border_width_mm],
\* z in [0, base_layer_mm + border_depth_mm]; width 100, height 80, border
\* width 5 give an outer footprint of 110 x 90.
C8_BorderFootprint ==
    call.op = "add_border" =>
        LET a == call.args
        IN  /\ Len(ret.vectors) = 48
            /\ SetMin(AxisValues(ret, 1)) = 0
            /\ SetMax(AxisValues(ret, 1)) = a.width_mm + 2 * a.border_width_mm
            /\ SetMin(AxisValues(ret, 2)) = 0
            /\ SetMax(AxisValues(ret, 2)) = a.height_mm + 2 * a.border_width_mm
            /\ SetMin(AxisValues(ret, 3)) = 0
            /\ SetMax(AxisValues(ret, 3)) = a.base_layer_mm + a.border_depth_mm
            /\ (a.width_mm = 10000 /\ a.height_mm = 8000 /\ a.border_width_mm = 500)
                   => /\ SetMax(AxisValues(ret, 1)) = 11000
                      /\ SetMax(AxisValues(ret, 2)) = 9000

\* the border of the 100 x 80 model with a 5 mm frame
C8_Witness ==
    /\ call.op = "add_border"
    /\ call.args.width_mm = 10000
    /\ call.args.height_mm = 8000
    /\ call.args.border_width_mm = 500
    /\ Len(ret.vectors) = 48
    /\ SetMax(AxisValues(ret, 1)) = 11000
    /\ SetMax(AxisValues(ret, 2)) = 9000

\* the number of triangles of the first n meshes of a sequence
RECURSIVE FacesBefore(_, _)
FacesBefore(meshes, n) ==
    IF n = 0 THEN 0 ELSE FacesBefore(meshes, n - 1) + Len(meshes[n].vectors)

\* C9: combine_meshes(m1, ..., mk) is pure concatenation: the result has
\* len(m1) + ... + len(mk) triangles, the triangles of m1 in order, then m2,
\* ..., then mk, each with its three vertices unchanged, and the input meshes
\* are not modified.
C9_CombineConcatenates ==
    call.op = "combine_meshes" =>
        LET ms == call.meshes
        IN  /\ ret.type = "Mesh"
            /\ Len(ret.vectors) = FacesBefore(ms, Len(ms))
            /\ \A k \in 1..Len(ms) : \A t \in 1..Len(ms[k].vectors) :
                   ret.vectors[FacesBefore(ms, k - 1) + t] = ms[k].vectors[t]
            /\ \A k \in 1..Len(ms) : ms[k] \in {mesh, border}

\* a relief and a border combined, as the cli does
C9_Witness ==
    /\ call.op = "combine_meshes"
    /\ mesh # NoneVal
    /\ border # NoneVal
    /\ Len(mesh.vectors) > 0
    /\ call.meshes = <<mesh, border>>
    /\ Len(ret.vectors) = Len(mesh.vectors) + 48

\* a coordinate n / CoordDen clamped into [0, 1]
ClampCoord(n) == IF n < 0 THEN 0 ELSE IF n > CoordDen THEN CoordDen ELSE n

\* C10: for any normalised coordinate outside [0, 1] on a non-empty
\* heightmap, sample_at raises no error and returns the value sampled at the
\* coordinate clamped into [0, 1] (no wrapped index, no extrapolation).
C10_SampleAtClamps ==
    (call.op = "sample_at" /\ heightmap # NoneVal)
        => /\ ret.type = "float"
           /\ ret = sample_at(heightmap, ClampCoord(call.x), ClampCoord(call.y), CoordDen)

\* the samples of a heightmap array
SamplesOf(hm) == {hm.data[i][j] : i \in 1..Rows(hm.data), j \in 1..Cols(hm.data)}

\* C11: on a heightmap of h rows and w columns, sample_at(0, 0) returns the
\* sample at row 0, column 0, sample_at(1, 1) returns the sample at row h-1,
\* column w-1, and for every x, y in [0, 1] the bilinear result lies between
\* the minimum and the maximum sample of the heightmap.
C11_SampleAtInRange ==
    (/\ call.op = "sample_at"
     /\ heightmap # NoneVal
     /\ 0 <= call.x /\ call.x <= CoordDen
     /\ 0 <= call.y /\ call.y <= CoordDen)
        => /\ ret.type = "float"
           /\ SetMin(SamplesOf(heightmap)) * ret.den <= ret.num
           /\ ret.num <= SetMax(SamplesOf(heightmap)) * ret.den
           /\ (call.x = 0 /\ call.y = 0) => ret.num = heightmap.data[1][1] * ret.den
           /\ (call.x = CoordDen /\ call.y = CoordDen)
                  => ret.num = heightmap.data[Rows(heightmap.data)][Cols(heightmap.data)] * ret.den

\* an interpolated sample strictly inside the range of a non-constant 2x2
\* heightmap, taken strictly inside the unit square
C11_Witness ==
    /\ call.op = "sample_at"
    /\ heightmap # NoneVal
    /\ Rows(heightmap.data) = 2 /\ Cols(heightmap.data) = 2
    /\ 0 < call.x /\ call.x < CoordDen
    /\ 0 < call.y /\ call.y < CoordDen
    /\ ret.type = "float"
    /\ SetMin(SamplesOf(heightmap)) * ret.den < ret.num
    /\ ret.num < SetMax(SamplesOf(heightmap)) * ret.den

\* C12: for min_depth_mm < max_depth_mm and luminances in [0, 1], generate
\* returns an array of the input's shape whose every sample is
\* min_depth_mm + luminance * (max_depth_mm - min_depth_mm) (here to the
\* fixed-point unit), hence within [min_depth_mm, max_depth_mm], exactly
\* min_depth_mm at luminance 0 and exactly max_depth_mm at luminance 1; the
\* generator stores that array and the pair (min_depth, max_depth).
C12_GenerateLinear ==
    (call.op = "generate" /\ call.min_depth_mm < call.max_depth_mm)
        => LET img == call.processed_image
               lo == call.min_depth_mm
               hi == call.max_depth_mm
           IN  /\ ret.type = "ndarray"
               /\ Rows(ret.data) = Rows(img)
               /\ Cols(ret.data) = Cols(img)
               /\ \A i \in 1..Rows(img) : \A j \in 1..Cols(img) :
                      LET v == ret.data[i][j]
                          exact == img[i][j] * (hi - lo)
                      IN  /\ (v - lo) * 100 <= exact
                          /\ exact < (v - lo + 1) * 100
                          /\ lo <= v /\ v <= hi
                          /\ img[i][j] = 0 => v = lo
                          /\ img[i][j] = 100 => v = hi
               /\ heightmap = ret
               /\ min_depth = lo
               /\ max_depth = hi

\* the linear-mapping fixture (luminances 0, 0.5 and 1) over an increasing range
C12_Witness ==
    /\ call.op = "generate"
    /\ call.processed_image = linear_image
    /\ call.min_depth_mm < call.max_depth_mm
    /\ call.min_depth_mm > 0
    /\ heightmap = ret
    /\ ret.type = "ndarray"

\* C13: a call of generate with max_depth_mm < min_depth_mm fails with an
\* invalid-range error: it returns no heightmap and leaves the generator's
\* heightmap, min_depth and max_depth as they were.
C13_GenerateRejectsInvertedRange ==
    [][(call'.op = "generate" /\ call'.max_depth_mm < call'.min_depth_mm)
          => (ret'.type = "raise" /\ UNCHANGED hmVars)]_vars

\* C14: export_stl on a generator whose mesh has zero triangles (as after
\* create_relief_mesh on a 1x1 heightmap) fails with an empty-mesh error and
\* writes no file.
C14_ExportRejectsEmptyMesh ==
    [][(call'.op = "export_stl" /\ mesh # NoneVal /\ Len(mesh.vectors) = 0)
          => (ret'.type = "raise" /\ UNCHANGED files)]_vars

\* the number whose little-endian bytes are data[from .. from + 3]
DecodeLE4(data, from) ==
    data[from] + 256 * data[from + 1] + 65536 * data[from + 2] + 16777216 * data[from + 3]

\* C20: after export_stl(path, binary=True) on a generator whose current mesh
\* has N > 0 triangles, the file at path holds an 80-byte header, then the
\* 4-byte little-endian count N, then N records of 50 bytes, 84 + 50 * N
\* bytes in all, and the call returned the path it was given.
C20_BinaryStlLayout ==
    (/\ call.op = "export_stl" /\ call.binary
     /\ mesh # NoneVal /\ Len(mesh.vectors) > 0)
        => LET N == Len(mesh.vectors)
               f == files[call.path]
           IN  /\ f.type = "bytes"
               /\ Len(f.data) = 84 + 50 * N
               /\ DecodeLE4(f.data, 81) = N
               /\ \A k \in 1..N : f.data[84 + 50 * k - 1] = 0 /\ f.data[84 + 50 * k] = 0
               /\ ret = Str(call.path)

\* a binary export of a relief with twelve triangles (a 2x2 heightmap)
C20_Witness ==
    /\ call.op = "export_stl" /\ call.binary
    /\ mesh # NoneVal /\ Len(mesh.vectors) = 12
    /\ files[call.path] # NoneVal
    /\ Len(files[call.path].data) = 684
    /\ ret.type = "str"

\* everything the two generators and the file system hold
objectVars == <<meshVars, hmVars, fsVars, plannerVars>>

\* C15: export_stl on a generator without a mesh raises ValueError('No mesh
\* generated') and writes no file; to_base64 on a generator without a
\* heightmap raises ValueError('No heightmap generated'); either failure
\* leaves the state as it was, and once create_relief_mesh (generate) has
\* run the same call succeeds: export_stl returns the path and the file
\* exists, to_base64 returns a string.
C15_MissingObjectErrors ==
    [][/\ (call'.op = "export_stl" /\ mesh = NoneVal)
            => (/\ ret' = RaisedMsg("ValueError", "No mesh generated")
                /\ UNCHANGED objectVars)
       /\ (call'.op = "to_base64" /\ heightmap = NoneVal)
            => (/\ ret' = RaisedMsg("ValueError", "No heightmap generated")
                /\ UNCHANGED objectVars)
       /\ (call'.op = "export_stl" /\ mesh # NoneVal)
            => (ret' = Str(call'.path) /\ files'[call'.path] # NoneVal)
       /\ (call'.op = "to_base64" /\ heightmap # NoneVal)
            => (ret'.type = "str" /\ UNCHANGED objectVars)]_vars

\* export_stl has failed on the fresh generator, and nothing was written
C15_Witness ==
    /\ call.op = "export_stl"
    /\ mesh = NoneVal
    /\ ret.type = "raise"
    /\ files[call.path] = NoneVal

\* C16: while no heightmap has been generated, sample_at returns 0.0 for
\* every x and y, HeightMapGenerator.get_stats returns an empty dict and
\* get_dimensions returns (0, 0); MeshGenerator.get_stats returns an empty
\* dict while no mesh has been generated; none of the calls raises or
\* changes the state.
C16_EmptySentinels ==
    [][/\ (call'.op = "sample_at" /\ heightmap = NoneVal)
            => (ret'.type = "float" /\ ret'.num = 0 /\ UNCHANGED objectVars)
       /\ (call'.op = "HeightMapGenerator.get_stats" /\ heightmap = NoneVal)
            => (ret'.type = "dict" /\ ret'.keys = {} /\ UNCHANGED objectVars)
       /\ (call'.op = "get_dimensions" /\ heightmap = NoneVal)
            => (ret' = Tuple(<<0, 0>>) /\ UNCHANGED objectVars)
       /\ (call'.op = "get_stats" /\ mesh = NoneVal)
            => (ret'.type = "dict" /\ ret'.keys = {} /\ UNCHANGED objectVars)]_vars

\* get_dimensions has answered (0, 0) on a generator without a heightmap
\* whose partner already holds a mesh
C16_Witness ==
    /\ call.op = "get_dimensions"
    /\ heightmap = NoneVal
    /\ mesh # NoneVal
    /\ ret = Tuple(<<0, 0>>)

\* C17: from_base64(g.to_base64(), width, height), with width and height
\* the dimensions of g's heightmap, yields a generator whose heightmap has
\* the same shape and the same sample at every (row, col), and to_base64
\* does not change g.
C17_Base64RoundTrip ==
    [][/\ call'.op = "to_base64" => UNCHANGED hmVars
       /\ (/\ call'.op = "from_base64"
           /\ heightmap # NoneVal
           /\ call'.width = Cols(heightmap.data)
           /\ call'.height = Rows(heightmap.data))
            => /\ ret'.type = "HeightMapGenerator"
               /\ ret'.heightmap.type = "ndarray"
               /\ Rows(ret'.heightmap.data) = Rows(heightmap.data)
               /\ Cols(ret'.heightmap.data) = Cols(heightmap.data)
               /\ \A i \in 1..Rows(heightmap.data) : \A j \in 1..Cols(heightmap.data) :
                      ret'.heightmap.data[i][j] = heightmap.data[i][j]]_vars

\* a heightmap of one row and three columns with two different samples has
\* come back from its own base64 string
C17_Witness ==
    /\ call.op = "from_base64"
    /\ heightmap # NoneVal
    /\ Rows(heightmap.data) = 1 /\ Cols(heightmap.data) = 3
    /\ call.width = 3 /\ call.height = 1
    /\ heightmap.data[1][1] # heightmap.data[1][3]
    /\ ret.type = "HeightMapGenerator"
    /\ ret.heightmap = heightmap

\* C18: for detail_size > 1.0, every sample of the heightmap returned by
\* apply_detail_controls lies within [min_depth, max_depth], the depth range
\* the generator produced the height field with, whatever calls came before.
C18_DetailWithinRange ==
    (call.op = "apply_detail_controls" /\ call.detail_size > 100)
        => \A i \in 1..Rows(ret.data) : \A j \in 1..Cols(ret.data) :
               min_depth <= ret.data[i][j] /\ ret.data[i][j] <= max_depth

\* Python round() of the rational num / den (num >= 0, den > 0): to the
\* nearest integer, a tie to the even one
PyRound(num, den) ==
    LET q == num \div den
        r == num % den
    IN  IF 2 * r < den THEN q
        ELSE IF 2 * r > den THEN q + 1
        ELSE IF q % 2 = 0 THEN q ELSE q + 1

\* C19: for detail_size < 1.0, apply_detail_controls blurs with strength
\* s = (1.0 - detail_size) * 3.0 and a kernel radius of max(1, round(s)):
\* radius 2 for detail_size 0.5 (s = 1.5), radius 3 for 0.1 (s = 2.7).
C19_BlurRadiusRounded ==
    (/\ call.op = "apply_detail_controls"
     /\ call.detail_size < 100
     /\ SetMin(SamplesOf(heightmap)) # SetMax(SamplesOf(heightmap)))
        => /\ pil # NoneVal
           /\ pil.op = "GaussianBlur"
           /\ pil.radius = PyMax(1, PyRound((100 - call.detail_size) * 3, 100))

\* a triangle with two vertices above each other: a wall triangle
HasVerticalEdge(tri) ==
    \E a \in 1..3 : \E b \in 1..3 :
        a # b /\ tri[a][1] = tri[b][1] /\ tri[a][2] = tri[b][2]

\* C24: create_relief_mesh on a heightmap with a single row or a single
\* column raises nothing and returns wall triangles only: 4 * (w - 1) for a
\* 1 x w grid, all on the one row (front and back wall), 4 * (h - 1) for an
\* h x 1 grid, all on the one column, and none for a 1 x 1 grid.
C24_ThinField ==
    (/\ call.op = "create_relief_mesh"
     /\ (Rows(call.heightmap) = 1 \/ Cols(call.heightmap) = 1))
        => LET h == Rows(call.heightmap)
               w == Cols(call.heightmap)
           IN  /\ ret.type = "Mesh"
               /\ Len(ret.vectors) = 4 * (w - 1) + 4 * (h - 1)
               /\ \A t \in 1..Len(ret.vectors) :
                      /\ HasVerticalEdge(ret.vectors[t])
                      /\ h = 1 => \A v \in 1..3 : ret.vectors[t][v][2] = call.args.offset_y
                      /\ w = 1 => \A v \in 1..3 : ret.vectors[t][v][1] = call.args.offset_x

\* a relief of a heightmap of one row and three columns: eight wall triangles
C24_Witness ==
    /\ call.op = "create_relief_mesh"
    /\ Rows(call.heightmap) = 1 /\ Cols(call.heightmap) = 3
    /\ ret.type = "Mesh"
    /\ Len(ret.vectors) = 8

\* the (x, y) positions of the vertices of a triangle
FootprintOf(tri) == {<<tri[v][1], tri[v][2]>> : v \in 1..3}

\* the triangles of the last create_relief_mesh call come in the fixed order:
\* top cells row-major (two triangles each), bottom cells likewise, then the
\* front, back, left and right wall, each along increasing index
ReliefOrdered ==
    LET hm == call.heightmap
        a == call.args
        h == Rows(hm)
        w == Cols(hm)
        nS == 2 * (h - 1) * (w - 1)
        nW == 2 * (w - 1)
        nH == 2 * (h - 1)
        \* position of grid column j and grid row i (0-based)
        xAt(j) == IF w = 1 THEN a.offset_x ELSE a.offset_x + (j * a.width_mm) \div (w - 1)
        yAt(i) == IF h = 1 THEN a.offset_y ELSE a.offset_y + (i * a.height_mm) \div (h - 1)
        top(i, j) == hm[i + 1][(w - 1 - j) + 1] + a.base_layer_mm
        Corners(i, j) == {<<xAt(j), yAt(i)>>, <<xAt(j + 1), yAt(i)>>,
                          <<xAt(j), yAt(i + 1)>>, <<xAt(j + 1), yAt(i + 1)>>}
        tri(t) == ret.vectors[t]
    IN  /\ ret.type = "Mesh"
        /\ Len(ret.vectors) = 2 * nS + 2 * nW + 2 * nH
        /\ \A k \in 1..nS :
               LET c == (k - 1) \div 2
                   i == c \div (w - 1)
                   j == c % (w - 1)
               IN  /\ FootprintOf(tri(k)) \subseteq Corners(i, j)
                   /\ FootprintOf(tri(nS + k)) \subseteq Corners(i, j)
                   /\ <<xAt(j + 1), yAt(i), top(i, j + 1)>> \in {tri(k)[v] : v \in 1..3}
                   /\ <<xAt(j), yAt(i + 1), top(i + 1, j)>> \in {tri(k)[v] : v \in 1..3}
                   /\ \A v \in 1..3 : tri(nS + k)[v][3] = 0
        /\ \A k \in 1..nW :
               LET j == (k - 1) \div 2
               IN  /\ FootprintOf(tri(2 * nS + k)) = {<<xAt(j), yAt(0)>>, <<xAt(j + 1), yAt(0)>>}
                   /\ FootprintOf(tri(2 * nS + nW + k))
                          = {<<xAt(j), yAt(h - 1)>>, <<xAt(j + 1), yAt(h - 1)>>}
        /\ \A k \in 1..nH :
               LET i == (k - 1) \div 2
               IN  /\ FootprintOf(tri(2 * nS + 2 * nW + k))
                          = {<<xAt(0), yAt(i)>>, <<xAt(0), yAt(i + 1)>>}
                   /\ FootprintOf(tri(2 * nS + 2 * nW + nH + k))
                          = {<<xAt(w - 1), yAt(i)>>, <<xAt(w - 1), yAt(i + 1)>>}

\* C25: create_relief_mesh emits the top-surface triangles first, cell by
\* cell in row-major order, then the bottom-surface triangles in the same
\* cell order, then the walls front, back, left, right, each along
\* increasing index; a call with the inputs of the call that built the
\* stored mesh returns the same triangle sequence.
C25_TriangleOrder ==
    [][call'.op = "create_relief_mesh"
          => /\ ReliefOrdered'
             /\ (mesh # NoneVal /\ reliefArgs = call'.args /\ callerHeightmap = call'.heightmap)
                    => ret' = mesh]_vars

\* the relief of a 2 x 3 heightmap (two cells in a row, all four walls) at
\* a non-zero offset, in the fixed order
C25_Witness ==
    /\ call.op = "create_relief_mesh"
    /\ Rows(call.heightmap) = 2 /\ Cols(call.heightmap) = 3
    /\ call.args.offset_x # 0
    /\ Len(ret.vectors) = 20
    /\ ReliefOrdered

\* C26: add_border, combine_meshes, get_stats and export_stl leave the
\* generator's stored mesh unchanged and create_relief_mesh replaces it by
\* the mesh it returns, so that get_stats and export_stl describe the relief
\* alone whatever borders and combinations were built since.
C26_OnlyReliefStoresMesh ==
    [][LET relief == ReliefFaces(Rows(callerHeightmap), Cols(callerHeightmap))
       IN  /\ call'.op \in {"add_border", "combine_meshes", "get_stats", "export_stl"}
                => mesh' = mesh
           /\ call'.op = "create_relief_mesh" => mesh' = ret'
           /\ (call'.op = "get_stats" /\ mesh # NoneVal /\ relief > 0)
                => ret'.face_count = relief
           /\ (call'.op = "export_stl" /\ call'.binary /\ mesh # NoneVal)
                => DecodeLE4(files'[call'.path].data, 81) = relief]_vars

\* get_stats reports the twelve triangles of the relief although a border
\* has been built and a combination of 60 triangles returned
C26_Witness ==
    /\ call.op = "get_stats"
    /\ mesh # NoneVal
    /\ border # NoneVal
    /\ ret.type = "dict"
    /\ ret.face_count = 12
    /\ Len(border.vectors) = 48

\* every sample of the array hm lies within [lo, hi]
SamplesWithin(hm, lo, hi) == \A v \in SamplesOf(hm) : lo <= v /\ v <= hi

\* C27: whatever generate (with min_depth_mm <= max_depth_mm), from_base64,
\* apply_detail_controls, sample_at, get_stats and to_base64 calls were made,
\* the generator holds no heightmap or every stored sample lies within its
\* stored [min_depth, max_depth]; the generator from_base64 builds has the
\* minimum and the maximum of the decoded samples as its range; and
\* apply_detail_controls, sample_at, get_stats and to_base64 leave the stored
\* heightmap and range unchanged.
C27_DepthRangeInvariant ==
    [][/\ (heightmap' # NoneVal /\ min_depth' <= max_depth')
            => SamplesWithin(heightmap', min_depth', max_depth')
       /\ call'.op \in {"apply_detail_controls", "sample_at",
                        "HeightMapGenerator.get_stats", "to_base64", "from_base64"}
            => UNCHANGED hmVars
       /\ (call'.op = "from_base64" /\ ret'.type = "HeightMapGenerator")
            => /\ ret'.min_depth = SetMin(SamplesOf(ret'.heightmap))
               /\ ret'.max_depth = SetMax(SamplesOf(ret'.heightmap))
               /\ SamplesWithin(ret'.heightmap, ret'.min_depth, ret'.max_depth)]_vars

\* a generator rebuilt from base64 whose range, taken from its samples, is
\* narrower than the range the heightmap was generated with
C27_Witness ==
    /\ call.op = "from_base64"
    /\ ret.type = "HeightMapGenerator"
    /\ Cols(heightmap.data) = 2
    /\ min_depth < max_depth
    /\ ret.min_depth = min_depth
    /\ ret.max_depth < max_depth
    /\ ret.heightmap = heightmap

----------------------------------------------------------------------------
(* ColorPlanner.  Planner lengths (thresholds, layer heights, z) are fixed  *)
(* point: 1 unit = 0.0001 mm.                                               *)

\* dict.get(key, default)
Get(d, key, default) == IF key \in DOMAIN d THEN d[key] ELSE default

Filament(id, name, hex_color, td, enabled, order_index) ==
    [id |-> id, name |-> name, hex_color |-> hex_color, td |-> td,
     enabled |-> enabled, order_index |-> order_index]

ColorStop(filament_id, threshold_z_mm) ==
    [filament_id |-> filament_id, threshold_z_mm |-> threshold_z_mm]

SwapEntry(layer, z_mm, filament_id) ==
    [layer |-> layer, z_mm |-> z_mm, filament_id |-> filament_id]

\* ColorPlanner.set_filaments: the new value of self.filaments (td in hundredths)
set_filaments(dicts) ==
    [i \in 1..Len(dicts) |->
        Filament(Get(dicts[i], "id", Get(dicts[i], "filament_id", "")),
                 Get(dicts[i], "name", ""),
                 Get(dicts[i], "hex_color", Get(dicts[i], "hexColor", "#FFFFFF")),
                 Get(dicts[i], "td", 100),
                 Get(dicts[i], "enabled", TRUE),
                 Get(dicts[i], "order_index", Get(dicts[i], "orderIndex", 0)))]

\* one step of a stable sort by threshold: x goes behind every stop whose
\* threshold is not greater
InsertByThreshold(sorted, x) ==
    LET k == Cardinality({i \in 1..Len(sorted) :
                             sorted[i].threshold_z_mm <= x.threshold_z_mm})
    IN  SubSeq(sorted, 1, k) \o <<x>> \o SubSeq(sorted, k + 1, Len(sorted))

\* list.sort / sorted with key = threshold_z_mm (stable)
RECURSIVE sorted_by_threshold(_)
sorted_by_threshold(s) ==
    IF s = <<>> THEN <<>>
    ELSE InsertByThreshold(sorted_by_threshold(SubSeq(s, 1, Len(s) - 1)), s[Len(s)])

\* ColorPlanner.set_stops: the new value of self.stops
set_stops(dicts) ==
    sorted_by_threshold(
        [i \in 1..Len(dicts) |->
            ColorStop(Get(dicts[i], "filament_id", Get(dicts[i], "filamentId", "")),
                      Get(dicts[i], "threshold_z_mm", Get(dicts[i], "thresholdZMm", 0)))])

\* thresholds and layer heights a caller passes (0.0001 mm): -0.05, 0, 0.3,
\* 0.8 and 1.6 mm; layers of 0.08, 0.1 and 0.0016 mm
Thresholds == {-500, 0, 3000, 8000, 16000}

LayerHeights == {800, 1000, 16}

\* the pairs <<threshold, layer height>> of the sets above whose quotient as
\* IEEE-754 doubles is not the exact one: 0.3 / 0.1 is 2.9999999999999996
InexactQuotients == {<<3000, 1000>>}

\* int(threshold_z_mm / layer_height_mm) on floats: the quotient rounded to
\* a double, then truncated toward zero
layer_of(threshold_z_mm, layer_height_mm) ==
    IF <<threshold_z_mm, layer_height_mm>> \in InexactQuotients
    THEN IntTrunc(threshold_z_mm, layer_height_mm) - 1
    ELSE IntTrunc(threshold_z_mm, layer_height_mm)

\* round(layer * layer_height_mm, 3): to the nearest 0.001 mm (10 units)
z_of(layer, layer_height_mm) == PyRound(layer * layer_height_mm, 10) * 10

\* the loop of compute_swaps over the sorted stops
RECURSIVE SwapsFrom(_, _, _)
SwapsFrom(sorted_stops, last_layer, layer_height_mm) ==
    IF sorted_stops = <<>> THEN <<>>
    ELSE LET stop == Head(sorted_stops)
             layer == layer_of(stop.threshold_z_mm, layer_height_mm)
         IN  IF layer > last_layer
             THEN <<SwapEntry(layer, z_of(layer, layer_height_mm), stop.filament_id)>>
                      \o SwapsFrom(Tail(sorted_stops), layer, layer_height_mm)
             ELSE SwapsFrom(Tail(sorted_stops), last_layer, layer_height_mm)

\* the loop adding a swap for every stop, also in a layer that has one
RECURSIVE SwapsFromEveryStop(_, _, _)
SwapsFromEveryStop(sorted_stops, last_layer, layer_height_mm) ==
    IF sorted_stops = <<>> THEN <<>>
    ELSE LET stop == Head(sorted_stops)
             layer == layer_of(stop.threshold_z_mm, layer_height_mm)
         IN  IF layer >= last_layer
             THEN <<SwapEntry(layer, z_of(layer, layer_height_mm), stop.filament_id)>>
                      \o SwapsFromEveryStop(Tail(sorted_stops), layer, layer_height_mm)
             ELSE SwapsFromEveryStop(Tail(sorted_stops), last_layer, layer_height_mm)

\* compute_swaps with that loop
compute_swapsEveryStop(self_stops, layer_height_mm) ==
    IF self_stops = <<>> THEN <<>>
    ELSE SwapsFromEveryStop(sorted_by_threshold(self_stops), -1, layer_height_mm)

\* ColorPlanner.compute_swaps: the new value of self.swaps, which is returned
compute_swaps(self_stops, layer_height_mm) ==
    IF self_stops = <<>> THEN <<>>
    ELSE SwapsFrom(sorted_by_threshold(self_stops), -1, layer_height_mm)

\* ColorPlanner.get_filament_by_id
get_filament_by_id(self_filaments, filament_id) ==
    LET hits == {i \in 1..Len(self_filaments) : self_filaments[i].id = filament_id}
    IN  IF hits = {} THEN NoneVal ELSE self_filaments[SetMin(hits)]

\* get_layer_filament stopping one swap early
get_layer_filamentEarly(self_swaps, self_filaments, layer) ==
    IF self_swaps = <<>> THEN NoneVal
    ELSE LET later == {i \in 1..Len(self_swaps) : self_swaps[i].layer >= layer}
             n == IF later = {} THEN Len(self_swaps) ELSE SetMin(later) - 1
         IN  get_filament_by_id(self_filaments,
                                self_swaps[IF n = 0 THEN 1 ELSE n].filament_id)

\* ColorPlanner.get_layer_filament: the loop leaves at the first swap above
\* the queried layer; the filament id is the one of the swap before it
get_layer_filament(self_swaps, self_filaments, layer) ==
    IF self_swaps = <<>> THEN NoneVal
    ELSE LET later == {i \in 1..Len(self_swaps) : self_swaps[i].layer > layer}
             n == IF later = {} THEN Len(self_swaps) ELSE SetMin(later) - 1
         IN  get_filament_by_id(self_filaments,
                                self_swaps[IF n = 0 THEN 1 ELSE n].filament_id)

\* the longest list of stops a caller sets
MaxStops == 2

\* the stop dictionaries of a caller: one per threshold, and a second one at
\* 0.8 mm for another filament, written with the camel-case keys
StopDicts ==
    {[filament_id |-> "white", threshold_z_mm |-> -500],
     [filament_id |-> "gray", threshold_z_mm |-> 0],
     [filament_id |-> "white", threshold_z_mm |-> 3000],
     [filament_id |-> "white", threshold_z_mm |-> 8000],
     [filamentId |-> "gray", thresholdZMm |-> 8000],
     [filament_id |-> "gray", threshold_z_mm |-> 16000]}

StopLists == UNION {[1..n -> StopDicts] : n \in 0..MaxStops}

\* the stops of test_get_layer_filament scaled to the thresholds above, in
\* two orders, and no stops
LayerStopLists ==
    {<<>>,
     <<[filament_id |-> "white", threshold_z_mm |-> 3000],
       [filament_id |-> "gray", threshold_z_mm |-> 16000]>>,
     <<[filament_id |-> "gray", threshold_z_mm |-> 16000],
       [filament_id |-> "white", threshold_z_mm |-> 8000]>>}

white_filament ==
    [id |-> "white", name |-> "White", hex_color |-> "#FFFFFF", td |-> 50,
     enabled |-> TRUE, order_index |-> 0]

gray_filament ==
    [id |-> "gray", name |-> "Gray", hex_color |-> "#808080", td |-> 100,
     enabled |-> TRUE, order_index |-> 1]

\* the filament lists of a caller: none, white only, white and gray, and two
\* entries for white of which one uses the alternative keys
FilamentLists ==
    {<<>>, <<white_filament>>, <<white_filament, gray_filament>>,
     <<white_filament, [filament_id |-> "white", hexColor |-> "#EEEEEE", orderIndex |-> 3]>>}

\* the layers a caller asks get_layer_filament about
QueryLayers == {-1, 0, 2, 3, 9, 10, 11, 20, 200}

SetFilaments ==
    \E dicts \in FilamentLists :
        /\ filaments' = set_filaments(dicts)
        /\ call' = [op |-> "set_filaments"]
        /\ ret' = NoneVal
        /\ UNCHANGED <<meshVars, hmVars, fsVars, stops, swaps>>

SetStopsFrom(lists) ==
    \E dicts \in lists :
        /\ stops' = set_stops(dicts)
        /\ call' = [op |-> "set_stops"]
        /\ ret' = NoneVal
        /\ UNCHANGED <<meshVars, hmVars, fsVars, filaments, swaps>>

SetStops == SetStopsFrom(StopLists)

SetLayerStops == SetStopsFrom(LayerStopLists)

\* min_depth_mm and max_depth_mm are not read by the method
ComputeSwaps ==
    \E layer_height_mm \in LayerHeights :
        /\ swaps' = compute_swaps(stops, layer_height_mm)
        /\ ret' = List(swaps')
        /\ call' = [op |-> "compute_swaps", layer_height_mm |-> layer_height_mm]
        /\ UNCHANGED <<meshVars, hmVars, fsVars, filaments, stops>>

GetLayerFilament ==
    \E layer \in QueryLayers :
        /\ ret' = get_layer_filament(swaps, filaments, layer)
        /\ call' = [op |-> "get_layer_filament", layer |-> layer]
        /\ UNCHANGED <<meshVars, hmVars, fsVars, plannerVars>>

(* One ColorPlanner used by a caller *)
InitPlanner ==
    /\ MeshGeneratorInit
    /\ callerHeightmap = << <<0>> >>
    /\ HeightMapGeneratorInit
    /\ FileSystemInit
    /\ PilInit
    /\ ColorPlannerInit

NextPlanner ==
    \/ SetStops
    \/ ComputeSwaps

SpecPlanner == InitPlanner /\ [][NextPlanner]_vars

(* The planner asked for the filament of a layer *)
InitLayers == InitPlanner

NextLayers ==
    \/ SetFilaments
    \/ SetLayerStops
    \/ ComputeSwaps
    \/ GetLayerFilament

SpecLayers == InitLayers /\ [][NextLayers]_vars

\* C23: after compute_swaps with a positive layer height, every swap of the
\* returned list comes from a stop with the swap's filament_id, and when that
\* stop's threshold is not negative the swap has layer = floor(threshold /
\* layer height) and z_mm = layer * layer height, so that
\* z_mm <= threshold < z_mm + layer height.
C23_SwapAlignedToLayer ==
    call.op = "compute_swaps" =>
        \A k \in 1..Len(ret.items) : \E i \in 1..Len(stops) :
            LET swap == ret.items[k]
                threshold == stops[i].threshold_z_mm
                layer_height == call.layer_height_mm
            IN  /\ stops[i].filament_id = swap.filament_id
                /\ IF threshold >= 0
                   THEN /\ swap.layer = threshold \div layer_height
                        /\ swap.z_mm = swap.layer * layer_height
                        /\ swap.z_mm <= threshold
                        /\ threshold < swap.z_mm + layer_height
                   ELSE swap.layer = layer_of(threshold, layer_height)

\* the layers of a swap list increase strictly and none is negative
LayersIncrease(entries) ==
    /\ \A k \in 1..Len(entries) : entries[k].layer >= 0
    /\ \A k \in 1..Len(entries) : \A l \in 1..Len(entries) :
           k < l => entries[k].layer < entries[l].layer

\* the stops of the planner that fall into a layer
StopsInLayer(layer, layer_height) ==
    {i \in 1..Len(stops) : layer_of(stops[i].threshold_z_mm, layer_height) = layer}

\* C29: compute_swaps with a positive layer height returns (and stores) a
\* list whose layers increase strictly and are never negative; every layer
\* >= 0 that holds a stop has exactly one swap, which carries the filament of
\* a stop with the lowest threshold of that layer; without stops the list is
\* empty; the call leaves the stops as they are, and a second call with the
\* same layer height returns the same list.
C29_SwapsStrictlyIncreasing ==
    [][call'.op = "compute_swaps" =>
        LET entries == ret'.items
            layer_height == call'.layer_height_mm
        IN  /\ ret'.type = "list"
            /\ swaps' = entries
            /\ stops' = stops
            /\ LayersIncrease(entries)
            /\ stops = <<>> => entries = <<>>
            /\ \A i \in 1..Len(stops) :
                   layer_of(stops[i].threshold_z_mm, layer_height) >= 0
                       => \E k \in 1..Len(entries) :
                              entries[k].layer =
                                  layer_of(stops[i].threshold_z_mm, layer_height)
            /\ \A k \in 1..Len(entries) :
                   \E i \in StopsInLayer(entries[k].layer, layer_height) :
                       /\ stops[i].filament_id = entries[k].filament_id
                       /\ \A j \in StopsInLayer(entries[k].layer, layer_height) :
                              stops[i].threshold_z_mm <= stops[j].threshold_z_mm
            /\ call = call' => ret' = ret]_vars

\* two stops for different filaments fall into layer 0 and the lower one,
\* supplied in either order, gave the only swap
C29_Witness ==
    /\ call.op = "compute_swaps"
    /\ Len(stops) = 2
    /\ stops[1].threshold_z_mm < stops[2].threshold_z_mm
    /\ stops[1].filament_id # stops[2].filament_id
    /\ StopsInLayer(0, call.layer_height_mm) = {1, 2}
    /\ ret.items = <<SwapEntry(0, 0, stops[1].filament_id)>>
    /\ swaps = ret.items

\* the filament id get_layer_filament is to select: the one of the last swap
\* at or below the layer, the one of the first swap when there is none
ActiveFilamentId(entries, layer) ==
    LET reached == {k \in 1..Len(entries) : entries[k].layer <= layer}
    IN  IF reached = {} THEN entries[1].filament_id
        ELSE entries[CHOOSE k \in reached :
                         \A l \in reached : entries[l].layer <= entries[k].layer].filament_id

\* C30: get_layer_filament(layer), the swaps being in increasing layer
\* order, changes nothing of the planner; it returns None without swaps and
\* when no filament has the selected id, and otherwise a filament of the
\* planner with the id of the last swap at or below the layer (of the first
\* swap for a layer below it).
C30_LayerFilament ==
    [][(call'.op = "get_layer_filament" /\ LayersIncrease(swaps)) =>
        /\ UNCHANGED plannerVars
        /\ swaps = <<>> => ret' = NoneVal
        /\ swaps # <<>> =>
               LET id == ActiveFilamentId(swaps, call'.layer)
               IN  IF \E i \in 1..Len(filaments) : filaments[i].id = id
                   THEN /\ ret' # NoneVal
                        /\ ret'.id = id
                        /\ \E i \in 1..Len(filaments) : filaments[i] = ret'
                   ELSE ret' = NoneVal]_vars

\* a layer between two swaps: the filament of the earlier swap is returned
C30_Witness ==
    /\ call.op = "get_layer_filament"
    /\ Len(swaps) = 2
    /\ swaps[1].layer < call.layer /\ call.layer < swaps[2].layer
    /\ swaps[1].filament_id # swaps[2].filament_id
    /\ ret # NoneVal
    /\ ret.id = swaps[1].filament_id

----------------------------------------------------------------------------
(* The command-line sidecar: layerforge/cli.py.  A JSON object is a record  *)
(* of its keys; a key that is missing is missing from the record.           *)

\* {}
EmptyDict == [k \in {} |-> 0]

\* a dict returned by a method: its keys and their values
Dict(fields) == [type |-> "dict", keys |-> DOMAIN fields, value |-> fields]

\* what a method function did: its result (or exception) and the file system
Outcome(result, fs) == [ret |-> result, files |-> fs]

\* ndimage.zoom(heightmap, (new_h / h, new_w / w), order=1): the sample k of
\* n_out along an axis lies at k * (n_in - 1) / (n_out - 1) of the input (at
\* 0 for n_out = 1) and is interpolated linearly between its neighbours
ZoomAxis(k, n_in, n_out) ==
    IF n_out = 1 THEN [lo |-> 1, hi |-> 1, num |-> 0, den |-> 1]
    ELSE LET pos == (k - 1) * (n_in - 1)
             lo == pos \div (n_out - 1)
         IN  [lo |-> lo + 1, hi |-> PyMin(lo + 2, n_in),
              num |-> pos % (n_out - 1), den |-> n_out - 1]

zoom(a, new_h, new_w) ==
    [i \in 1..new_h |-> [j \in 1..new_w |->
        LET r == ZoomAxis(i, Rows(a), new_h)
            c == ZoomAxis(j, Cols(a), new_w)
            upper == a[r.lo][c.lo] * (c.den - c.num) + a[r.lo][c.hi] * c.num
            lower == a[r.hi][c.lo] * (c.den - c.num) + a[r.hi][c.hi] * c.num
        IN  (upper * (r.den - r.num) + lower * r.num) \div (r.den * c.den)]]

\* the height field generate_mesh triangulates: the decoded one, downsampled
\* when print_settings names a mesh_resolution below its larger side
downsample(heightmap_data, print_settings) ==
    LET original_h == Rows(heightmap_data)
        original_w == Cols(heightmap_data)
        original_max == PyMax(original_w, original_h)
    IN  IF "mesh_resolution" \in DOMAIN print_settings
           /\ print_settings.mesh_resolution > 0
           /\ print_settings.mesh_resolution < original_max
        THEN LET mesh_resolution == print_settings.mesh_resolution
                 new_w == PyMax(1, IntTrunc(original_w * mesh_resolution, original_max))
                 new_h == PyMax(1, IntTrunc(original_h * mesh_resolution, original_max))
             IN  zoom(heightmap_data, new_h, new_w)
        ELSE heightmap_data

\* the border width generate_mesh works with
cli_border_width_mm(print_settings) ==
    IF Get(print_settings, "has_border", FALSE)
    THEN Get(print_settings, "border_width_mm", 200)
    ELSE 0

\* the relief of generate_mesh placed at the origin also under a border
cli_reliefAtOrigin(heightmap_data, print_settings) ==
    create_relief_mesh(heightmap_data,
                       Get(print_settings, "width_mm", 10000),
                       Get(print_settings, "height_mm", 10000),
                       Get(print_settings, "base_layer_mm", 16),
                       0, 0)

\* the relief of generate_mesh: create_relief_mesh at the border's offset
cli_relief(heightmap_data, print_settings) ==
    create_relief_mesh(heightmap_data,
                       Get(print_settings, "width_mm", 10000),
                       Get(print_settings, "height_mm", 10000),
                       Get(print_settings, "base_layer_mm", 16),
                       cli_border_width_mm(print_settings),
                       cli_border_width_mm(print_settings))

\* the border of generate_mesh
cli_border(print_settings) ==
    add_border(Get(print_settings, "width_mm", 10000),
               Get(print_settings, "height_mm", 10000),
               cli_border_width_mm(print_settings),
               Get(print_settings, "border_depth_mm", 200),
               Get(print_settings, "base_layer_mm", 16))

\* mesh_gen.mesh of generate_mesh when export_stl is reached
cli_mesh(heightmap_data, print_settings) ==
    LET relief == cli_relief(downsample(heightmap_data, print_settings), print_settings)
    IN  IF Get(print_settings, "has_border", FALSE)
        THEN combine_meshes(<<relief, cli_border(print_settings)>>)
        ELSE relief

\* generate_mesh opening the output file before the heightmap is decoded
generate_meshWritesFirst(params, fs) ==
    LET request == Get(params, "request", EmptyDict)
        print_settings == Get(request, "print_settings", EmptyDict)
        opened == IF "output_path" \in DOMAIN params
                  THEN [fs EXCEPT ![params.output_path] = BinaryStl(Mesh(<<>>))]
                  ELSE fs
    IN  IF ~({"heightmap_base64", "width", "height"} \subseteq DOMAIN request)
        THEN Outcome(Raised("TypeError"), opened)
        ELSE LET heightmap_gen ==
                     from_base64(request.heightmap_base64, request.width, request.height)
             IN  IF heightmap_gen.type = "raise" THEN Outcome(heightmap_gen, opened)
                 ELSE IF "output_path" \notin DOMAIN params
                 THEN Outcome(Raised("TypeError"), fs)
                 ELSE LET m == cli_mesh(heightmap_gen.heightmap.data, print_settings)
                      IN  Outcome(Dict([path |-> params.output_path]),
                                  export_stl_files(fs, m, params.output_path, TRUE))

\* cli.generate_mesh: decode, downsample, triangulate, add the border, then
\* export; b64decode(None) and reshape((None, None)) raise TypeError, and so
\* does Mesh.save(None)
generate_mesh(params, fs) ==
    LET request == Get(params, "request", EmptyDict)
        print_settings == Get(request, "print_settings", EmptyDict)
    IN  IF ~({"heightmap_base64", "width", "height"} \subseteq DOMAIN request)
        THEN Outcome(Raised("TypeError"), fs)
        ELSE LET heightmap_gen ==
                     from_base64(request.heightmap_base64, request.width, request.height)
             IN  IF heightmap_gen.type = "raise" THEN Outcome(heightmap_gen, fs)
                 ELSE IF "output_path" \notin DOMAIN params
                 THEN Outcome(Raised("TypeError"), fs)
                 ELSE LET m == cli_mesh(heightmap_gen.heightmap.data, print_settings)
                      IN  Outcome(Dict([path |-> params.output_path]),
                                  export_stl_files(fs, m, params.output_path, TRUE))

\* cli.process_image: Image.open raises for a path that is missing (None),
\* that names no file (FileNotFoundError) or that names a file which is no
\* image (UnidentifiedImageError); the file system holds no image
process_image(params, fs) ==
    IF "image_path" \notin DOMAIN params THEN Outcome(Raised("AttributeError"), fs)
    ELSE IF params.image_path \notin DOMAIN fs \/ fs[params.image_path] = NoneVal
    THEN Outcome(Raised("FileNotFoundError"), fs)
    ELSE Outcome(Raised("UnidentifiedImageError"), fs)

\* cli.compute_preview: the heightmap is decoded as in generate_mesh; the
\* result holds the PNG of the preview, whose pixels are left out here
compute_preview(params, fs) ==
    IF ~({"heightmap_base64", "width", "height"} \subseteq DOMAIN params)
    THEN Outcome(Raised("TypeError"), fs)
    ELSE LET heightmap_gen ==
                 from_base64(params.heightmap_base64, params.width, params.height)
         IN  IF heightmap_gen.type = "raise" THEN Outcome(heightmap_gen, fs)
             ELSE Outcome(Dict([preview_base64 |-> "data:image/png;base64,"]), fs)

\* cli.compute_swaps: a new planner, set_stops, compute_swaps; the division
\* by a layer height of 0 raises when there is a stop
cli_compute_swaps(params, fs) ==
    LET layer_height == Get(params, "layer_height_mm", 800)
        planner_stops == set_stops(Get(params, "stops", <<>>))
    IN  IF layer_height = 0 /\ planner_stops # <<>>
        THEN Outcome(Raised("ZeroDivisionError"), fs)
        ELSE Outcome(Dict([swaps |-> compute_swaps(planner_stops, layer_height)]), fs)

\* cli.export_plan: the plan file is written by export_plan_json or
\* export_plan_txt; of its text the format and the swaps are kept here.
\* open(None, 'w') raises TypeError.
export_plan(params, fs) ==
    IF "output_path" \notin DOMAIN params THEN Outcome(Raised("TypeError"), fs)
    ELSE Outcome(Dict([path |-> params.output_path]),
                 [fs EXCEPT ![params.output_path] =
                     [type |-> "plan",
                      format |-> IF Get(params, "format", "txt") = "json" THEN "json" ELSE "txt",
                      swaps |-> Get(params, "swaps", <<>>)]])

\* METHODS.keys()
METHODS ==
    <<"process_image", "generate_mesh", "compute_preview", "compute_swaps", "export_plan">>

\* METHODS[method](params)
Dispatch(method, params, fs) ==
    CASE method = "process_image" -> process_image(params, fs)
      [] method = "generate_mesh" -> generate_mesh(params, fs)
      [] method = "compute_preview" -> compute_preview(params, fs)
      [] method = "compute_swaps" -> cli_compute_swaps(params, fs)
      [] method = "export_plan" -> export_plan(params, fs)

\* a str holding a JSON document, and a str that holds none
JsonStr(value) == [type |-> "str", json |-> value]

\* json.loads: the value of the document, JSONDecodeError for other text
json_loads(s) == IF "json" \in DOMAIN s THEN s.json ELSE Raised("JSONDecodeError")

\* the except branch of handle_request: str(e) and traceback.format_exc()
ErrorObject(e) ==
    Dict([error |-> e.exception,
          traceback |-> <<"Traceback (most recent call last):", e.exception>>])

\* handle_request without the except branch around the dispatched method
handle_requestPropagates(request_json, fs) ==
    LET request == json_loads(request_json)
    IN  IF request.type = "raise" THEN Outcome(JsonStr(ErrorObject(request)), fs)
        ELSE IF request.type # "dict"
        THEN Outcome(JsonStr(ErrorObject(Raised("AttributeError"))), fs)
        ELSE LET method == Get(request.value, "method", NoneVal)
                 params == Get(request.value, "params", EmptyDict)
             IN  IF method.type = "list"
                 THEN Outcome(JsonStr(ErrorObject(Raised("TypeError"))), fs)
                 ELSE IF method.type # "str"
                         \/ \A k \in 1..Len(METHODS) : METHODS[k] # method.text
                 THEN Outcome(JsonStr(Dict([error |-> <<"Unknown method: ", method>>,
                                            available_methods |-> METHODS])), fs)
                 ELSE LET done == Dispatch(method.text, params, fs)
                      IN  IF done.ret.type = "raise"
                          THEN Outcome(done.ret, done.files)
                          ELSE Outcome(JsonStr(done.ret), done.files)

\* cli.handle_request: the returned str and the file system.  A document
\* that is no object has no get (AttributeError); a method that is a list
\* cannot be looked up in METHODS (TypeError).
handle_request(request_json, fs) ==
    LET request == json_loads(request_json)
    IN  IF request.type = "raise" THEN Outcome(JsonStr(ErrorObject(request)), fs)
        ELSE IF request.type # "dict"
        THEN Outcome(JsonStr(ErrorObject(Raised("AttributeError"))), fs)
        ELSE LET method == Get(request.value, "method", NoneVal)
                 params == Get(request.value, "params", EmptyDict)
             IN  IF method.type = "list"
                 THEN Outcome(JsonStr(ErrorObject(Raised("TypeError"))), fs)
                 ELSE IF method.type # "str"
                         \/ \A k \in 1..Len(METHODS) : METHODS[k] # method.text
                 THEN Outcome(JsonStr(Dict([error |-> <<"Unknown method: ", method>>,
                                            available_methods |-> METHODS])), fs)
                 ELSE LET done == Dispatch(method.text, params, fs)
                      IN  IF done.ret.type = "raise"
                          THEN Outcome(JsonStr(ErrorObject(done.ret)), done.files)
                          ELSE Outcome(JsonStr(done.ret), done.files)

\* the height fields a frontend sends: 1x1, 2x2 and 2x3 samples
CliHeightMaps ==
    { << <<150>> >>,
      << <<100, 200>>, <<200, 300>> >>,
      << <<0, 150, 0>>, <<150, 0, 150>> >> }

\* print_settings of generate_mesh requests: the test's, the defaults with a
\* border, a border around a downsampled field, and a border width that is
\* ignored without has_border
CliPrintSettings ==
    { [width_mm |-> 10000, height_mm |-> 8000, layer_height_mm |-> 8,
       base_layer_mm |-> 16, has_border |-> FALSE],
      [has_border |-> TRUE],
      [width_mm |-> 10000, height_mm |-> 8000, base_layer_mm |-> 16, has_border |-> TRUE,
       border_width_mm |-> 500, border_depth_mm |-> 300, mesh_resolution |-> 2],
      [width_mm |-> 6000, height_mm |-> 3000, has_border |-> FALSE,
       border_width_mm |-> 500, mesh_resolution |-> 4] }

\* the request part of generate_mesh params for a height field: its base64
\* text with its own sizes, or with a width that does not fit
MeshRequests ==
    {[heightmap_base64 |-> to_base64(Array(hm)).text, width |-> Cols(hm) + d,
      height |-> Rows(hm), print_settings |-> ps] :
        hm \in CliHeightMaps, d \in {0, 1}, ps \in CliPrintSettings}

GenerateMeshParams ==
    {[request |-> r, output_path |-> p] : r \in MeshRequests, p \in Paths}
        \cup {[request |-> r] : r \in MeshRequests}
        \cup {[output_path |-> p] : p \in Paths}

\* a request document {method, params}
Request(method, params) == JsonStr(Dict([method |-> Str(method), params |-> params]))

\* the request strings handle_request is given: requests for generate_mesh,
\* for the other methods with params that fail and that succeed, for an
\* unknown method, without a method, with a list as method, a document that
\* is an array, and text that is no JSON
RequestStrings ==
    {Request("generate_mesh", params) : params \in GenerateMeshParams}
        \cup {Request("process_image", [image_path |-> path, geometry |-> [gamma |-> 100]]) :
                  path \in Paths \cup {"/nonexistent/path/image.png"}}
        \cup {Request("compute_preview", [width |-> 1, height |-> 1]),
              Request("compute_preview",
                      [heightmap_base64 |-> to_base64(Array(<< <<150>> >>)).text,
                       width |-> 1, height |-> 1])}
        \cup {Request("compute_swaps", [stops |-> stop_dicts, layer_height_mm |-> layer_height]) :
                  stop_dicts \in LayerStopLists, layer_height \in {0, 800}}
        \cup {Request("export_plan", [swaps |-> <<>>, format |-> "json"]),
              Request("export_plan", [swaps |-> <<>>, format |-> "json", output_path |-> "out.stl"]),
              Request("unknown_method", [image_path |-> "out.stl"]),
              JsonStr(Dict([params |-> [image_path |-> "out.stl"]])),
              JsonStr(Dict([method |-> List(<<>>)])),
              JsonStr(List(<<>>)),
              [type |-> "str", text |-> "not valid json {{{"]}

\* one request handled by the sidecar
HandleRequest ==
    \E request_json \in RequestStrings :
        LET done == handle_request(request_json, files)
        IN  /\ ret' = done.ret
            /\ files' = done.files
            /\ call' = [op |-> "handle_request", request |-> request_json]
            /\ UNCHANGED <<meshVars, hmVars, pil, plannerVars>>

(* The sidecar answering requests over one file system *)
InitCli ==
    /\ MeshGeneratorInit
    /\ callerHeightmap = << <<0>> >>
    /\ HeightMapGeneratorInit
    /\ FileSystemInit
    /\ PilInit
    /\ ColorPlannerInit

NextCli == HandleRequest

SpecCli == InitCli /\ [][NextCli]_vars

\* the request string is a document asking for the method
AsksFor(request_json, method) ==
    /\ "json" \in DOMAIN request_json
    /\ request_json.json.type = "dict"
    /\ "method" \in DOMAIN request_json.json.value
    /\ request_json.json.value.method = Str(method)

\* the params of a request document that has them
ParamsOf(request_json) == request_json.json.value.params

\* the answer of handle_request is an error object
IsError(answer) ==
    /\ answer.type = "str"
    /\ answer.json.type = "dict"
    /\ "error" \in answer.json.keys

\* C21: handle_request for generate_mesh answers with one JSON object; when
\* it is an error object (the heightmap could not be decoded, or the build
\* or the export raised) no file was written or changed by the request; a
\* request whose heightmap cannot be decoded is answered with an error
\* object; and an answer without error names the path, the only file written.
C21_FailedBuildWritesNothing ==
    [][(call'.op = "handle_request" /\ AsksFor(call'.request, "generate_mesh")) =>
        LET params == ParamsOf(call'.request)
        IN  /\ ret'.type = "str" /\ ret'.json.type = "dict"
            /\ IsError(ret') => files' = files
            /\ ("request" \notin DOMAIN params
                    \/ from_base64(params.request.heightmap_base64, params.request.width,
                                   params.request.height).type = "raise")
                   => IsError(ret')
            /\ ~IsError(ret') =>
                   /\ ret'.json.keys = {"path"}
                   /\ files'[ret'.json.value.path].type = "bytes"
                   /\ \A p \in Paths : p # ret'.json.value.path => files'[p] = files[p]]_vars

\* a generate_mesh request with an output path whose heightmap does not fit
\* the sizes it names was answered with an error, and there is no file
C21_Witness ==
    /\ call.op = "handle_request"
    /\ AsksFor(call.request, "generate_mesh")
    /\ "output_path" \in DOMAIN ParamsOf(call.request)
    /\ "request" \in DOMAIN ParamsOf(call.request)
    /\ IsError(ret)
    /\ "traceback" \in ret.json.keys
    /\ files[ParamsOf(call.request).output_path] = NoneVal

\* the five method names of the interface
FiveMethods ==
    {"process_image", "generate_mesh", "compute_preview", "compute_swaps", "export_plan"}

\* the request string is a document that names one of the five methods
NamesMethod(request_json) == \E name \in FiveMethods : AsksFor(request_json, name)

\* the request string is a JSON object whose method, if any, is a name or null
WellFormed(request_json) ==
    /\ "json" \in DOMAIN request_json
    /\ request_json.json.type = "dict"
    /\ Get(request_json.json.value, "method", NoneVal).type \in {"str", "None"}

\* C22: handle_request returns, for every request string, a str holding a
\* JSON object and raises nothing.  Text that is no JSON, a document that is
\* no object and an exception of the dispatched method give an object with
\* 'error' and a non-empty 'traceback'; a method that is none of the five
\* gives 'error' naming it and 'available_methods' listing the five, and
\* touches no file; a request naming one of the five is answered with what
\* that method returned.
C22_HandleRequestTotal ==
    [][call'.op = "handle_request" =>
        LET request_json == call'.request
            answer == ret'.json
        IN  /\ ret'.type = "str" /\ "json" \in DOMAIN ret' /\ answer.type = "dict"
            /\ ~WellFormed(request_json) =>
                   /\ {"error", "traceback"} \subseteq answer.keys
                   /\ answer.value.traceback # <<>>
                   /\ files' = files
            /\ (WellFormed(request_json) /\ ~NamesMethod(request_json)) =>
                   /\ answer.keys = {"error", "available_methods"}
                   /\ answer.value.error[2] = Get(request_json.json.value, "method", NoneVal)
                   /\ {answer.value.available_methods[k] :
                          k \in 1..Len(answer.value.available_methods)} = FiveMethods
                   /\ files' = files
            /\ NamesMethod(request_json) =>
                   LET done == Dispatch(request_json.json.value.method.text,
                                        Get(request_json.json.value, "params", EmptyDict),
                                        files)
                   IN  /\ files' = done.files
                       /\ IF done.ret.type = "raise"
                          THEN /\ {"error", "traceback"} \subseteq answer.keys
                               /\ answer.value.traceback # <<>>
                          ELSE answer = done.ret /\ "error" \notin answer.keys]_vars

\* process_image for an image that does not exist was answered with an
\* error object carrying a traceback, as in test_error_returns_traceback
C22_Witness ==
    /\ call.op = "handle_request"
    /\ AsksFor(call.request, "process_image")
    /\ IsError(ret)
    /\ ret.json.value.error = "FileNotFoundError"
    /\ "traceback" \in ret.json.keys
    /\ ret.json.value.traceback # <<>>

\* the triangles span exactly [x0, x1] x [y0, y1] in X and Y
XYBoxIs(triangles, x0, x1, y0, y1) ==
    /\ triangles # <<>>
    /\ SetMin(AxisValues(Mesh(triangles), 1)) = x0
    /\ SetMax(AxisValues(Mesh(triangles), 1)) = x1
    /\ SetMin(AxisValues(Mesh(triangles), 2)) = y0
    /\ SetMax(AxisValues(Mesh(triangles), 2)) = y1

\* no vertex of the triangles lies inside the open rectangle (x0, x1) x (y0, y1)
LeavesOpen(triangles, x0, x1, y0, y1) ==
    \A t \in 1..Len(triangles) : \A v \in 1..3 :
        \/ triangles[t][v][1] <= x0 \/ triangles[t][v][1] >= x1
        \/ triangles[t][v][2] <= y0 \/ triangles[t][v][2] >= y1

\* handle_request has answered a generate_mesh request without error
MeshExported ==
    /\ call.op = "handle_request"
    /\ AsksFor(call.request, "generate_mesh")
    /\ ~IsError(ret)

\* what C28 says of the file a generate_mesh request wrote; thin says whether
\* the bounding box is also claimed for a height field with a single row or
\* column
ExportedAsPlaced(thin) ==
    LET params == ParamsOf(call.request)
        print_settings == Get(params.request, "print_settings", EmptyDict)
        has_border == Get(print_settings, "has_border", FALSE)
        bw == IF has_border THEN Get(print_settings, "border_width_mm", 200) ELSE 0
        width_mm == Get(print_settings, "width_mm", 10000)
        height_mm == Get(print_settings, "height_mm", 10000)
        base_layer_mm == Get(print_settings, "base_layer_mm", 16)
        field == downsample(from_base64(params.request.heightmap_base64, params.request.width,
                                        params.request.height).heightmap.data,
                            print_settings)
        relief == create_relief_mesh(field, width_mm, height_mm, base_layer_mm, bw, bw).vectors
        frame == add_border(width_mm, height_mm, bw,
                            Get(print_settings, "border_depth_mm", 200), base_layer_mm).vectors
        boxed == thin \/ (Rows(field) >= 2 /\ Cols(field) >= 2)
    IN  /\ boxed => XYBoxIs(relief, bw, bw + width_mm, bw, bw + height_mm)
        /\ IF has_border
           THEN /\ files[params.output_path] = BinaryStl(Mesh(relief \o frame))
                /\ Len(frame) = 48
                /\ XYBoxIs(frame, 0, width_mm + 2 * bw, 0, height_mm + 2 * bw)
                /\ LeavesOpen(frame, bw, bw + width_mm, bw, bw + height_mm)
                /\ \E t \in 1..Len(frame) : \E v \in 1..3 :
                       frame[t][v][1] = bw /\ frame[t][v][2] = bw
                /\ \E t \in 1..Len(frame) : \E v \in 1..3 :
                       frame[t][v][1] = bw + width_mm /\ frame[t][v][2] = bw + height_mm
           ELSE files[params.output_path] = BinaryStl(Mesh(relief))

\* C28 as stated: after generate_mesh with has_border the relief, offset by
\* border_width_mm in X and Y, spans [bw, bw + width_mm] x [bw, bw + height_mm],
\* the opening of the border, inside the outer footprint, and the file holds
\* the relief triangles followed by the 48 border triangles; without border
\* the offset is 0 and the file holds the relief alone.
C28_ReliefInsideBorder == MeshExported => ExportedAsPlaced(TRUE)

\* C28 for a height field that has, after downsampling, at least two rows
\* and two columns: the relief spans exactly the opening of the border; the
\* order and the number of the exported triangles hold for every field.
C28_ReliefInsideBorderOfGrid == MeshExported => ExportedAsPlaced(FALSE)

\* a 2 x 2 field exported inside the default border: 12 relief and 48 border
\* triangles in the file
C28_Witness ==
    /\ MeshExported
    /\ Get(ParamsOf(call.request).request.print_settings, "has_border", FALSE)
    /\ ParamsOf(call.request).request.width = 2
    /\ ParamsOf(call.request).request.height = 2
    /\ "mesh_resolution" \notin DOMAIN ParamsOf(call.request).request.print_settings
    /\ Len(files[ParamsOf(call.request).output_path].data) = 84 + 50 * 60

====
